---- MODULE Spec2Model ----
(***************************************************************************)
(* Verification model of two parts of the slurm excerpt:                   *)
(*   - the data_parser/v0.0.41 scalar codecs (parsers.c): the NO_VAL       *)
(*     wrapped unsigned codecs, the memory_per_cpu / memory_per_node       *)
(*     overload group of the job descriptor, and the process exit code;    *)
(*   - the burst_buffer/generic plugin (burst_buffer_generic.c): the       *)
(*     allocation maps, the per-user accounting, the stage-in / stage-out  *)
(*     state advance, load_state with its purge sweep, and the mutex.      *)
(*                                                                         *)
(* TLC integers are 32 bit, so the 32 and 64 bit native integers of the    *)
(* codecs are modelled at reduced widths Bits32 < Bits64 (16 bit values    *)
(* keep their real width); every sentinel and tag bit is defined relative  *)
(* to the width.  The burst buffer sizes are exact 32 bit values, held as  *)
(* a pair: hi is bit 31 (BB_SIZE_IN_NODES), lo the 31 low bits.            *)
(***************************************************************************)
EXTENDS Integers, Sequences, FiniteSets, TLC

VARIABLES
    \* ---- data parser: one dump followed by one parse -------------------
    c_type,      \* the parser type being exercised
    c_complex,   \* args->flags has FLAG_COMPLEX_VALUES
    c_native,    \* the native value handed to dump
    c_dst,       \* content of the parse destination before the parse
    c_tree,      \* the data_t tree produced by dump
    c_out,       \* result of the last call: rc, destination, errors, warnings
    c_phase,     \* "start" -> "dumped" -> "parsed"
    \* ---- burst buffer plugin -------------------------------------------
    bb_hash,         \* bucket -> chain of bb_alloc_t, head first
    bb_uhash,        \* bucket -> chain of bb_user_t, head first
    total_space,     \* static uint32_t total_space
    user_size_limit, \* static uint32_t user_size_limit
    job_size_limit,  \* static uint32_t job_size_limit
    allow_users,     \* static uid_t *allow_users (a sequence, << >> is NULL)
    deny_users,      \* static uid_t *deny_users
    time_last_purge, \* static time_t in _purge_bb_rec
    now,             \* time(NULL)
    job_list,        \* job ids slurmctld still has a job_record for
    last_op,         \* name of the entry point that ran last
    last_ret,        \* its return value
    log_errors,      \* number of error() calls made by the last entry point
    ret_hist,        \* job id -> what bb_p_job_test_stage_in returned since
                     \* the job was admitted: how many 0, and whether a 1
    admitted,        \* job ids for which try_stage_in allocated a record
    out_started,     \* job ids for which start_stage_out has been called
    restarts,        \* stage-outs started on a record already staged out
    swept_at,        \* time() when _purge_bb_rec last swept the chains, 0 if never
    sub_count,       \* job id -> times _remove_user_load ran for its record
    \* ---- one call of _run_script ---------------------------------------
    rscript,     \* its locals, the child's behaviour and the clock
    \* ---- mutex discipline of the entry points --------------------------
    t_prog,      \* thread -> the steps left of the entry point it runs
    t_name,      \* thread -> name of that entry point ("" when idle)
    bb_mutex,    \* the threads holding bb_mutex: none or one
    t_access     \* thread -> it is right now reading or writing the maps

vars == << c_type, c_complex, c_native, c_dst, c_tree, c_out, c_phase,
           bb_hash, bb_uhash, total_space, user_size_limit, job_size_limit,
           allow_users, deny_users,
           time_last_purge, now, job_list, last_op, last_ret, log_errors,
           ret_hist, admitted, out_started, restarts, swept_at, sub_count,
           rscript,
           t_prog, t_name, bb_mutex, t_access >>

codecVars == << c_type, c_complex, c_native, c_dst, c_tree, c_out, c_phase >>

bbVars == << bb_hash, bb_uhash, total_space, user_size_limit,
             job_size_limit, allow_users, deny_users,
             time_last_purge, now, job_list, last_op, last_ret, log_errors,
             ret_hist, admitted, out_started, restarts, swept_at, sub_count >>

lockVars == << t_prog, t_name, bb_mutex, t_access >>

procVars == << rscript >>

(***************************************************************************)
(* Bounds of the model.                                                    *)
(***************************************************************************)
Bits32 == 20        \* modelled width of uint32_t in the codecs
Bits64 == 24        \* modelled width of uint64_t / int64_t in the codecs
Span == 2           \* how far around each boundary the sampled values go

Pow2(n) == 2 ^ n

(***************************************************************************)
(* Sentinels and tag bits (slurm.h), relative to the modelled widths.      *)
(***************************************************************************)
NO_VAL16 == Pow2(16) - 2
INFINITE16 == Pow2(16) - 1
NO_VAL == Pow2(Bits32) - 2
INFINITE == Pow2(Bits32) - 1
NO_VAL64 == Pow2(Bits64) - 2
INFINITE64 == Pow2(Bits64) - 1
MEM_PER_CPU == Pow2(Bits64 - 1)

(***************************************************************************)
(* The values the native inputs are drawn from: a few values at both ends  *)
(* of each width and around every boundary a codec compares against.       *)
(***************************************************************************)
Around(x) == (x - Span) .. (x + Span)

Samples(bits) ==
    {x \in Around(0) \cup Around(Pow2(8)) \cup Around(Pow2(15))
              \cup Around(Pow2(16))
              \cup Around(Pow2(Bits32 - 1)) \cup Around(Pow2(Bits32))
              \cup Around(Pow2(Bits64 - 1)) \cup Around(Pow2(Bits64))
              \cup {7, 9, 137, 1792, 4096} :
        0 <= x /\ x < Pow2(bits)}

(***************************************************************************)
(* data_t nodes.  Every node is a record with a type field; a string is a  *)
(* kind plus a number: "Infinity", "" (empty), "numeral" (the decimal text *)
(* of n), "signame" (the name of signal n), "text" (anything else).        *)
(*                                                                         *)
(* Throughout the module a record constructor lists its fields in the      *)
(* order in which their names first occur in the module.  That is the      *)
(* order in which TLC keeps the fields of a record, so a record is already *)
(* in normal form when it is built and TLC's workers never reorder the     *)
(* fields of a value they share.                                           *)
(***************************************************************************)
DNull == [type |-> "null"]
DBool(b) == [type |-> "bool", b |-> b]
DInt(i) == [type |-> "int", i |-> i]
DStr(kind, n) == [n |-> n, type |-> "string", kind |-> kind]
DDict(f) == [type |-> "dict", d |-> f]
\* a float is finite (the number f), "nan" or "inf"; a list is a sequence
DFloat(kind, f) == [type |-> "float", kind |-> kind, f |-> f]
DList(l) == [type |-> "list", l |-> l]

\* (int64_t) of an unsigned 64 bit value, as data_set_int() stores it
ToInt64(u) == IF u >= Pow2(Bits64 - 1) THEN u - Pow2(Bits64) ELSE u
\* (uint64_t) of an int64_t
ToUint64(i) == i % Pow2(Bits64)
\* (uint16_t) of an int64_t
ToUint16(i) == i % Pow2(16)

\* data_convert_type(src, DATA_TYPE_INT_64): in-place coercion, string -> int
\* only for a numeral
data_convert_type_INT_64(src) ==
    IF src.type = "int" THEN src
    ELSE IF src.type = "string" /\ src.kind = "numeral" THEN DInt(src.n)
    ELSE IF src.type = "bool" THEN DInt(IF src.b THEN 1 ELSE 0)
    ELSE IF src.type = "float" /\ src.kind = "finite" THEN DInt(src.f)
    ELSE src

\* data_convert_type(src, DATA_TYPE_FLOAT)
data_convert_type_FLOAT(src) ==
    IF src.type = "float" THEN src
    ELSE IF src.type = "int" THEN DFloat("finite", src.i)
    ELSE IF src.type = "string" /\ src.kind = "numeral"
    THEN DFloat("finite", src.n)
    ELSE src

\* data_convert_type(src, DATA_TYPE_STRING): every scalar has a text, a list
\* and a dict have none
data_convert_type_STRING(src) ==
    CASE src.type = "string" -> src
      [] src.type = "null" -> DStr("", 0)
      [] src.type = "int" -> DStr("numeral", src.i)
      [] src.type = "float" -> DStr("text", src.f)
      [] src.type = "bool" -> DStr("text", IF src.b THEN 1 ELSE 0)
      [] OTHER -> src

\* data_convert_type(src, DATA_TYPE_BOOL)
data_convert_type_BOOL(src) ==
    IF src.type = "bool" THEN src
    ELSE IF src.type = "int" THEN DBool(src.i # 0)
    ELSE src

(***************************************************************************)
(* Parse results: the return code, the destination after the call, and     *)
(* the errors and warnings appended to args.  The result r of an inner     *)
(* call is bound once, as CHOOSE out \in { f(r) : r \in { call } } : TRUE. *)
(***************************************************************************)
Res(rc, val, errs, warns) ==
    [rc |-> rc, val |-> val, errs |-> errs, warns |-> warns]
Ok(val) == Res("SLURM_SUCCESS", val, << >>, << >>)
\* a plain non-zero return: nothing is appended to args
Fail(rc, dst) == Res(rc, dst, << >>, << >>)
\* parse_error(): records the error in args and returns its code
parse_error(rc, dst, msg) == Res(rc, dst, << msg >>, << >>)

(***************************************************************************)
(* Scalar codecs of parsers.c.  A parse operator takes the destination's   *)
(* content before the call and the source node.                            *)
(***************************************************************************)
PARSE_FUNC_BOOL(dst, src) ==
    LET c == data_convert_type_BOOL(src)
    IN IF c.type = "bool" THEN Ok(c.b)
       ELSE Fail("ESLURM_DATA_CONV_FAILED", dst)

DUMP_FUNC_BOOL(b) == DBool(b)

PARSE_FUNC_UINT16(dst, src) ==
    IF src.type = "null" THEN Ok(0)
    ELSE LET c == data_convert_type_INT_64(src)
         IN IF c.type = "int" THEN Ok(ToUint16(c.i))
            ELSE Fail("ESLURM_DATA_CONV_FAILED", dst)

DUMP_FUNC_UINT16(v) == DInt(v)

PARSE_FUNC_UINT32(dst, src) ==
    IF src.type = "null" THEN Ok(0)
    ELSE LET c == data_convert_type_INT_64(src)
         IN IF c.type = "int"
            THEN \* catch -1 and set to NO_VAL instead of rolling
                 IF ToUint64(c.i) >= Pow2(Bits32) THEN Ok(NO_VAL)
                 ELSE Ok(ToUint64(c.i))
            ELSE Fail("ESLURM_DATA_CONV_FAILED", dst)

DUMP_FUNC_UINT32(v) == DInt(v)

PARSE_FUNC_UINT64(dst, src) ==
    IF src.type = "null" THEN Ok(0)
    ELSE LET c == data_convert_type_INT_64(src)
         IN IF c.type = "int" THEN Ok(ToUint64(c.i))
            ELSE Fail("ESLURM_DATA_CONV_FAILED", dst)

DUMP_FUNC_UINT64(v) ==
    \* Never set values of INF or NO_VAL
    IF v = NO_VAL64 \/ v = INFINITE64 THEN DNull ELSE DInt(ToInt64(v))

(***************************************************************************)
(* The composite engine (PARSER_MODEL_ARRAY): every linked field is dumped *)
(* at its key; on parse each field whose key is present is parsed, in the  *)
(* order of the field table (a field whose key is absent keeps its         *)
(* content), and the first error code is returned.                         *)
(***************************************************************************)
\* the first non-zero return code of a sequence of field results
FirstRc(rs) ==
    LET bad == {i \in 1..Len(rs) : rs[i].rc # "SLURM_SUCCESS"}
    IN IF bad = {} THEN "SLURM_SUCCESS"
       ELSE rs[CHOOSE i \in bad : \A j \in bad : i <= j].rc

\* PARSER_ARRAY(UINT64_NO_VAL_STRUCT): the fields set, infinite, number
ParseNoValStruct(src) ==
    IF src.type # "dict"
    THEN parse_error("ESLURM_DATA_EXPECTED_DICT",
                     [set |-> FALSE, infinite |-> FALSE, number |-> 0],
                     "expected dict")
    ELSE CHOOSE out \in
           { Res(FirstRc(<< r1, r2, r3 >>),
                 [set |-> r1.val, infinite |-> r2.val, number |-> r3.val],
                 r1.errs \o r2.errs \o r3.errs,
                 r1.warns \o r2.warns \o r3.warns) :
             r1 \in { IF "set" \in DOMAIN src.d
                      THEN PARSE_FUNC_BOOL(FALSE, src.d.set) ELSE Ok(FALSE) },
             r2 \in { IF "infinite" \in DOMAIN src.d
                      THEN PARSE_FUNC_BOOL(FALSE, src.d.infinite) ELSE Ok(FALSE) },
             r3 \in { IF "number" \in DOMAIN src.d
                      THEN PARSE_FUNC_UINT64(0, src.d.number) ELSE Ok(0) } } : TRUE

\* the dump of the same array and of its 32 / 16 bit siblings; number is the
\* node the parser of the number field dumped
DumpNoValStruct(set, infinite, number) ==
    DDict([set |-> DUMP_FUNC_BOOL(set),
           infinite |-> DUMP_FUNC_BOOL(infinite),
           number |-> number])

(***************************************************************************)
(* NO_VAL wrapped unsigned codecs.                                         *)
(***************************************************************************)
PARSE_FUNC_UINT64_NO_VAL(dst, src) ==
    CASE src.type = "null" -> Ok(NO_VAL64)
      [] src.type = "dict" ->
            CHOOSE out \in
              { IF r.rc # "SLURM_SUCCESS" THEN Res(r.rc, dst, r.errs, r.warns)
                ELSE IF r.val.infinite THEN Ok(INFINITE64)
                ELSE IF ~ r.val.set THEN Ok(NO_VAL64)
                ELSE Ok(r.val.number) :
                r \in { ParseNoValStruct(src) } } : TRUE
      [] src.type = "string" ->
            LET c == data_convert_type_INT_64(src)
            IN IF c.type # "int"
               THEN parse_error("ESLURM_DATA_CONV_FAILED", dst,
                                "Expected integer but got string")
               ELSE PARSE_FUNC_UINT64(dst, c)
      [] src.type = "int" -> PARSE_FUNC_UINT64(dst, src)
      [] OTHER -> parse_error("ESLURM_DATA_CONV_FAILED", dst,
                              "Expected integer")

DUMP_FUNC_UINT64_NO_VAL(v, complex) ==
    IF complex
    THEN IF v = INFINITE64 THEN DStr("Infinity", 0)
         ELSE IF v = NO_VAL64 THEN DNull
         ELSE DInt(ToInt64(v))
    ELSE IF v = INFINITE64
    THEN DumpNoValStruct(FALSE, TRUE, DUMP_FUNC_UINT64(0))
    ELSE IF v = NO_VAL64
    THEN DumpNoValStruct(FALSE, FALSE, DUMP_FUNC_UINT64(0))
    ELSE DumpNoValStruct(TRUE, FALSE, DUMP_FUNC_UINT64(v))

PARSE_FUNC_UINT32_NO_VAL_infinite_as_no_val(dst, src) ==
    CHOOSE out \in
      { IF r.rc # "SLURM_SUCCESS" THEN Res(r.rc, dst, r.errs, r.warns)
        ELSE IF r.val >= NO_VAL THEN Ok(NO_VAL)
        ELSE Ok(r.val % Pow2(Bits32)) :
        r \in { PARSE_FUNC_UINT64_NO_VAL(0, src) } } : TRUE

PARSE_FUNC_UINT32_NO_VAL(dst, src) ==
    CHOOSE out \in
      { IF r.rc # "SLURM_SUCCESS" THEN Res(r.rc, dst, r.errs, r.warns)
        ELSE IF r.val = NO_VAL64 THEN Ok(NO_VAL)
        ELSE IF r.val >= NO_VAL THEN Ok(INFINITE)
        ELSE Ok(r.val % Pow2(Bits32)) :
        r \in { PARSE_FUNC_UINT64_NO_VAL(0, src) } } : TRUE

DUMP_FUNC_UINT32_NO_VAL(v, complex) ==
    IF complex
    THEN IF v = INFINITE THEN DStr("Infinity", 0)
         ELSE IF v = NO_VAL THEN DNull
         ELSE DInt(v)
    ELSE IF v = INFINITE
    THEN DumpNoValStruct(FALSE, TRUE, DUMP_FUNC_UINT32(0))
    ELSE IF v = NO_VAL
    THEN DumpNoValStruct(FALSE, FALSE, DUMP_FUNC_UINT32(0))
    ELSE DumpNoValStruct(TRUE, FALSE, DUMP_FUNC_UINT32(v))

PARSE_FUNC_UINT16_NO_VAL(dst, src) ==
    CHOOSE out \in
      { IF r.rc # "SLURM_SUCCESS" THEN Res(r.rc, dst, r.errs, r.warns)
        ELSE IF r.val = NO_VAL64 THEN Ok(NO_VAL16)
        ELSE IF r.val >= NO_VAL THEN Ok(INFINITE16)
        ELSE Ok(ToUint16(r.val)) :
        r \in { PARSE_FUNC_UINT64_NO_VAL(0, src) } } : TRUE

DUMP_FUNC_UINT16_NO_VAL(v, complex) ==
    IF complex
    THEN IF v = INFINITE16 THEN DStr("Infinity", 0)
         ELSE IF v = NO_VAL16 THEN DNull
         ELSE DInt(v)
    ELSE IF v = INFINITE16
    THEN DumpNoValStruct(FALSE, TRUE, DUMP_FUNC_UINT16(0))
    ELSE IF v = NO_VAL16
    THEN DumpNoValStruct(FALSE, FALSE, DUMP_FUNC_UINT16(0))
    ELSE DumpNoValStruct(TRUE, FALSE, DUMP_FUNC_UINT16(v))

(***************************************************************************)
(* memory_per_cpu / memory_per_node: two linked fields of the job          *)
(* descriptor on the one native field pn_min_memory.                       *)
(***************************************************************************)
\* str_to_mbytes(): NO_VAL64 when the text is not a memory size
str_to_mbytes(src) == IF src.kind = "numeral" THEN ToUint64(src.n) ELSE NO_VAL64

PARSE_FUNC_MEM_PER_CPUS(dst, src) ==
    IF src.type = "null" THEN Ok(NO_VAL64)
    ELSE CHOOSE out \in
           { IF r.rc # "SLURM_SUCCESS" THEN Res(r.rc, dst, r.errs, r.warns)
             ELSE IF r.val = NO_VAL64 THEN Ok(NO_VAL64)
             ELSE IF r.val = INFINITE64 THEN Ok(0)
             ELSE IF r.val >= MEM_PER_CPU
             THEN parse_error("ESLURM_INVALID_TASK_MEMORY", dst,
                              "Memory value equal or larger than MEM_PER_CPU")
             ELSE Ok(MEM_PER_CPU + r.val) :
             r \in { IF src.type = "string"
                     THEN IF str_to_mbytes(src) = NO_VAL64
                          THEN parse_error("ESLURM_DATA_CONV_FAILED", dst,
                                           "Invalid formatted memory size")
                          ELSE Ok(str_to_mbytes(src))
                     ELSE PARSE_FUNC_UINT64_NO_VAL(NO_VAL64, src) } } : TRUE

DUMP_FUNC_MEM_PER_CPUS_dump_any_tag(mem, complex) ==
    DUMP_FUNC_UINT64_NO_VAL(mem % MEM_PER_CPU, complex)

DUMP_FUNC_MEM_PER_CPUS(mem, complex) ==
    DUMP_FUNC_UINT64_NO_VAL(
        IF mem >= MEM_PER_CPU THEN mem - MEM_PER_CPU ELSE NO_VAL64, complex)

PARSE_FUNC_MEM_PER_NODE(dst, src) ==
    IF src.type = "null" THEN Ok(NO_VAL64)
    ELSE CHOOSE out \in
           { IF r.rc # "SLURM_SUCCESS" THEN Res(r.rc, dst, r.errs, r.warns)
             ELSE IF r.val = NO_VAL64 THEN Ok(NO_VAL64)
             ELSE IF r.val = INFINITE64 THEN Ok(0)
             ELSE IF r.val >= MEM_PER_CPU
             THEN parse_error("ESLURM_INVALID_TASK_MEMORY", dst,
                              "Memory value equal or larger than MEM_PER_CPU")
             ELSE Ok(r.val) :
             r \in { IF src.type = "string"
                     THEN IF str_to_mbytes(src) = NO_VAL64
                          THEN parse_error("ESLURM_DATA_CONV_FAILED", dst,
                                           "Invalid formatted memory size")
                          ELSE Ok(str_to_mbytes(src))
                     ELSE PARSE_FUNC_UINT64_NO_VAL(NO_VAL64, src) } } : TRUE

DUMP_FUNC_MEM_PER_NODE(mem, complex) ==
    DUMP_FUNC_UINT64_NO_VAL(
        IF mem < MEM_PER_CPU THEN mem ELSE NO_VAL64, complex)

\* PARSER_ARRAY(JOB_DESC_MSG), the two entries on pn_min_memory: dump
DumpJobDescMem(mem, complex) ==
    DDict([memory_per_cpu |-> DUMP_FUNC_MEM_PER_CPUS(mem, complex),
           memory_per_node |-> DUMP_FUNC_MEM_PER_NODE(mem, complex)])

\* ... and parse, each present key in the order of the table, both writing
\* pn_min_memory
ParseJobDescMem(dst, src) ==
    IF src.type # "dict"
    THEN parse_error("ESLURM_DATA_EXPECTED_DICT", dst, "expected dict")
    ELSE CHOOSE out \in UNION
           { { Res(FirstRc(<< r1, r2 >>), r2.val,
                   r1.errs \o r2.errs, r1.warns \o r2.warns) :
               r2 \in { IF "memory_per_node" \in DOMAIN src.d
                        THEN PARSE_FUNC_MEM_PER_NODE(r1.val,
                                                     src.d.memory_per_node)
                        ELSE Ok(r1.val) } } :
             r1 \in { IF "memory_per_cpu" \in DOMAIN src.d
                      THEN PARSE_FUNC_MEM_PER_CPUS(dst, src.d.memory_per_cpu)
                      ELSE Ok(dst) } } : TRUE

(***************************************************************************)
(* Process exit code: a POSIX waitstatus held in a uint32_t.               *)
(***************************************************************************)
\* <sys/wait.h>
WTERMSIG(w) == w % 128
WEXITSTATUS(w) == (w \div 256) % 256
WIFEXITED(w) == WTERMSIG(w) = 0
WIFSIGNALED(w) == WTERMSIG(w) # 0 /\ WTERMSIG(w) # 127
WCOREDUMP(w) == (w \div 128) % 2 = 1
SIGRTMAX == 64

\* PARSER_FLAG_ARRAY(PROCESS_EXIT_CODE_STATUS): EQUAL entries, mask INFINITE
PROCESS_EXIT_CODE_STATUS ==
    << [value |-> "PROC_EXIT_CODE_INVALID", name |-> "INVALID", hidden |-> FALSE],
       [value |-> "PROC_EXIT_CODE_PENDING", name |-> "PENDING", hidden |-> FALSE],
       [value |-> "PROC_EXIT_CODE_SUCCESS", name |-> "SUCCESS", hidden |-> FALSE],
       [value |-> "PROC_EXIT_CODE_ERROR", name |-> "ERROR", hidden |-> FALSE],
       [value |-> "PROC_EXIT_CODE_SIGNALED", name |-> "SIGNALED", hidden |-> FALSE],
       [value |-> "PROC_EXIT_CODE_CORE_DUMPED", name |-> "CORE_DUMPED", hidden |-> FALSE],
       [value |-> "PROC_EXIT_CODE_INVALID_MAX", name |-> "INVALID2", hidden |-> TRUE] >>

\* flag-array engine, single string form: dump emits the first non-hidden
\* EQUAL entry that matches
DumpFlagString(table, v) ==
    LET hit == {i \in 1..Len(table) : table[i].value = v /\ ~ table[i].hidden}
    IN IF hit = {} THEN DStr("", 0)
       ELSE DStr(table[CHOOSE i \in hit : \A j \in hit : i <= j].name, 0)

\* ... and parse: a matched EQUAL entry overwrites the field, an unknown
\* token is a warning
ParseFlagString(table, dst, src) ==
    IF src.type # "string"
    THEN parse_error("ESLURM_DATA_FLAGS_INVALID_TYPE", dst, "expected flags")
    ELSE LET hit == {i \in 1..Len(table) : table[i].name = src.kind}
         IN IF hit = {} THEN Res("SLURM_SUCCESS", dst, << >>, << "Unknown flag" >>)
            ELSE Ok(table[CHOOSE i \in hit : \A j \in hit : i <= j].value)

\* data_get_string_converted(): the node as text
data_get_string_converted(src) ==
    CASE src.type = "string" -> Ok(src)
      [] src.type = "null" -> Ok(DStr("", 0))
      [] src.type = "int" -> Ok(DStr("numeral", src.i))
      [] OTHER -> Fail("ESLURM_DATA_CONV_FAILED", src)

\* sig_name2num(): 0 for a text that names no signal
sig_name2num(str) ==
    IF str.kind \in {"signame", "numeral"} THEN ToUint16(str.n) ELSE 0

\* sig_num2name()
sig_num2name(sig) == DStr("signame", sig)

PARSE_FUNC_SIGNAL(dst, src) ==
    LET c == data_convert_type_INT_64(src)
    IN IF c.type = "int" THEN Ok(ToUint16(c.i))
       ELSE LET t == data_get_string_converted(src)
            IN IF t.rc # "SLURM_SUCCESS"
               THEN parse_error(t.rc, dst, "expected string")
               ELSE IF t.val.kind = "" THEN Ok(NO_VAL16)
               ELSE IF sig_name2num(t.val) = 0
               THEN parse_error(t.rc, 0, "Unknown signal")
               ELSE Res(t.rc, sig_name2num(t.val), << >>,
                        IF sig_name2num(t.val) >= SIGRTMAX
                        THEN << "Non-standard signal number" >> ELSE << >>)

DUMP_FUNC_SIGNAL(sig, complex) ==
    IF sig = NO_VAL16
    THEN IF complex THEN DNull ELSE DStr("", 0)
    ELSE sig_num2name(sig)

\* PARSER_ARRAY(PROCESS_EXIT_CODE_VERBOSE): dump of proc_exit_code_verbose_t
DumpExitCodeVerbose(rcv, complex) ==
    DDict(("status" :> DumpFlagString(PROCESS_EXIT_CODE_STATUS, rcv.status))
       @@ ("return_code" :> DUMP_FUNC_UINT32_NO_VAL(rcv.return_code, complex))
       @@ ("signal/id" :> DUMP_FUNC_UINT16_NO_VAL(rcv.signal, complex))
       @@ ("signal/name" :> DUMP_FUNC_SIGNAL(rcv.signal, complex)))

\* ... and parse, into a proc_exit_code_verbose_t whose content is rcv0
ParseExitCodeVerbose(rcv0, src) ==
    IF src.type # "dict"
    THEN parse_error("ESLURM_DATA_EXPECTED_DICT", rcv0, "expected dict")
    ELSE CHOOSE out \in UNION
           { { Res(FirstRc(<< r1, r2, r3, r4 >>),
                   [status |-> r1.val, return_code |-> r2.val,
                    signal |-> r4.val],
                   r1.errs \o r2.errs \o r3.errs \o r4.errs,
                   r1.warns \o r2.warns \o r3.warns \o r4.warns) :
               r1 \in { IF "status" \in DOMAIN src.d
                        THEN ParseFlagString(PROCESS_EXIT_CODE_STATUS,
                                             rcv0.status, src.d["status"])
                        ELSE Ok(rcv0.status) },
               r2 \in { IF "return_code" \in DOMAIN src.d
                        THEN PARSE_FUNC_UINT32_NO_VAL(rcv0.return_code,
                                                      src.d["return_code"])
                        ELSE Ok(rcv0.return_code) },
               r4 \in { IF "signal/name" \in DOMAIN src.d
                        THEN PARSE_FUNC_SIGNAL(r3.val, src.d["signal/name"])
                        ELSE Ok(r3.val) } } :
             r3 \in { IF "signal/id" \in DOMAIN src.d
                      THEN PARSE_FUNC_UINT16_NO_VAL(rcv0.signal,
                                                    src.d["signal/id"])
                      ELSE Ok(rcv0.signal) } } : TRUE

\* rcv is not initialised by the code: garbage is what its return_code holds
\* before the fields are parsed
PARSE_FUNC_PROCESS_EXIT_CODE(dst, src, garbage) ==
    \* parse numeric return code directly first
    LET c == data_convert_type_INT_64(src)
    IN IF c.type = "int" THEN PARSE_FUNC_UINT32_NO_VAL(dst, c)
       ELSE CHOOSE out \in
              { IF r.rc # "SLURM_SUCCESS" THEN Res(r.rc, dst, r.errs, r.warns)
                ELSE Res(r.rc, r.val.return_code, r.errs, r.warns) :
                r \in { ParseExitCodeVerbose(
                            [status |-> "PROC_EXIT_CODE_INVALID",
                             return_code |-> garbage, signal |-> 0], src) } } : TRUE

DUMP_FUNC_PROCESS_EXIT_CODE(w, complex) ==
    DumpExitCodeVerbose(
        IF w = NO_VAL
        THEN [status |-> "PROC_EXIT_CODE_PENDING", return_code |-> NO_VAL,
              signal |-> NO_VAL16]
        ELSE IF WIFEXITED(w)
        THEN [status |-> IF WEXITSTATUS(w) # 0 THEN "PROC_EXIT_CODE_ERROR"
                         ELSE "PROC_EXIT_CODE_SUCCESS",
              return_code |-> WEXITSTATUS(w), signal |-> NO_VAL16]
        ELSE IF WIFSIGNALED(w)
        THEN [status |-> "PROC_EXIT_CODE_SIGNALED", return_code |-> NO_VAL,
              signal |-> WTERMSIG(w)]
        ELSE IF WCOREDUMP(w)
        THEN [status |-> "PROC_EXIT_CODE_CORE_DUMPED", return_code |-> NO_VAL,
              signal |-> NO_VAL16]
        ELSE [status |-> "PROC_EXIT_CODE_INVALID", return_code |-> w,
              signal |-> NO_VAL16],
        complex)

(***************************************************************************)
(* Signed integers, nice, floats, timestamps and string lists.             *)
(***************************************************************************)
INT32_MAX == Pow2(Bits32 - 1) - 1
INT32_MIN == - Pow2(Bits32 - 1)
NICE_OFFSET == Pow2(Bits32 - 1)

\* on_error(): records the error; the code is returned unless the caller's
\* error callback asks to continue
on_error(rc, cont, dst, msg) ==
    Res(IF cont THEN "SLURM_SUCCESS" ELSE rc, dst, << msg >>, << >>)

PARSE_FUNC_INT64(dst, src) ==
    IF src.type = "null" THEN Ok(0)
    ELSE LET c == data_convert_type_INT_64(src)
         IN IF c.type = "int" THEN Ok(c.i)
            ELSE parse_error("ESLURM_DATA_CONV_FAILED", dst,
                             "Expected integer")

PARSE_FUNC_INT32_no_range_check(dst, src) ==
    PARSE_FUNC_INT64(dst, src)

PARSE_FUNC_INT32(dst, src) ==
    \* data_t already handles the parsing of signed
    CHOOSE out \in
      { IF r.rc # "SLURM_SUCCESS" THEN Res(r.rc, dst, r.errs, r.warns)
        ELSE IF r.val > INT32_MAX \/ r.val < INT32_MIN THEN Fail("EINVAL", dst)
        ELSE Ok(r.val) :
        r \in { PARSE_FUNC_INT64(0, src) } } : TRUE

llabs(i) == IF i < 0 THEN - i ELSE i

PARSE_FUNC_NICE_limit_is_offset(dst, src, cont) ==
    CHOOSE out \in
      { IF r.rc = "EINVAL"
           \/ (r.rc = "SLURM_SUCCESS" /\ llabs(r.val) > NICE_OFFSET)
        THEN on_error("ESLURM_INVALID_NICE", cont, dst,
                      "Nice value not within +/- 2147483645")
        ELSE IF r.rc = "SLURM_SUCCESS"
        THEN Ok((r.val + NICE_OFFSET) % Pow2(Bits32))
        ELSE Res(r.rc, dst, r.errs, r.warns) :
        r \in { PARSE_FUNC_INT32(0, src) } } : TRUE

\* cont: what the caller's error callback answers
PARSE_FUNC_NICE(dst, src, cont) ==
    CHOOSE out \in
      { IF r.rc = "EINVAL"
           \/ (r.rc = "SLURM_SUCCESS" /\ llabs(r.val) > NICE_OFFSET - 3)
        THEN on_error("ESLURM_INVALID_NICE", cont, dst,
                      "Nice value not within +/- 2147483645")
        ELSE IF r.rc = "SLURM_SUCCESS"
        THEN Ok((r.val + NICE_OFFSET) % Pow2(Bits32))
        ELSE Res(r.rc, dst, r.errs, r.warns) :
        r \in { PARSE_FUNC_INT32(0, src) } } : TRUE

DUMP_FUNC_NICE(nice) ==
    IF nice # NO_VAL /\ nice # NICE_OFFSET THEN DInt(nice - NICE_OFFSET)
    ELSE DInt(0)

\* a finite double holds the number f
Float(f) == [kind |-> "finite", f |-> f]

PARSE_FUNC_FLOAT128(dst, src) ==
    IF src.type = "null" THEN Ok(Float(NO_VAL))
    ELSE LET c == data_convert_type_FLOAT(src)
         IN IF c.type = "float" THEN Ok([kind |-> c.kind, f |-> c.f])
            ELSE Fail("ESLURM_DATA_CONV_FAILED", dst)

PARSE_FUNC_FLOAT64(dst, src) ==
    IF src.type = "null" THEN Ok(Float(0))
    ELSE LET c == data_convert_type_FLOAT(src)
         IN IF c.type = "float" THEN Ok([kind |-> c.kind, f |-> c.f])
            ELSE Fail("ESLURM_DATA_CONV_FAILED", dst)

\* parse_time(): 0 for a text that is no time
parse_time(src) ==
    IF src.kind \in {"time", "numeral"} /\ src.n > 0 THEN src.n ELSE 0

_parse_timestamp(src) ==
    CASE src.type = "null" -> Ok(NO_VAL64)
      [] src.type = "float" ->
            IF src.kind # "finite" THEN Ok(NO_VAL64)
            ELSE Ok(ToUint64(data_convert_type_INT_64(src).i))
      [] src.type = "int" -> Ok(ToUint64(src.i))
      [] src.type = "string" ->
            IF parse_time(src) = 0
            THEN parse_error("ESLURM_DATA_CONV_FAILED", 0,
                             "Parsing for timestamp failed")
            ELSE Ok(parse_time(src))
      [] OTHER -> \* see if UINT64_NO_VAL can parse it
            PARSE_FUNC_UINT64_NO_VAL(0, src)

PARSE_FUNC_TIMESTAMP(dst, src) ==
    CHOOSE out \in
      { IF r.rc # "SLURM_SUCCESS" THEN Res(r.rc, dst, r.errs, r.warns)
        ELSE IF r.val = NO_VAL64
        THEN parse_error("ESLURM_DATA_CONV_FAILED", dst,
                         "Invalid or unset timestamp value")
        ELSE Ok(r.val) :
        r \in { _parse_timestamp(src) } } : TRUE

\* _parse_foreach_CSV_STRING_LIST_list over the elements: the walk stops at
\* the first element that has no text
CsvItems(l) ==
    LET bad == {i \in 1..Len(l) : data_convert_type_STRING(l[i]).type # "string"}
        stop == IF bad = {} THEN Len(l) + 1
                ELSE CHOOSE i \in bad : \A j \in bad : i <= j
    IN [errs |-> IF bad = {} THEN << >>
                 ELSE << "unable to convert csv entry to string" >>,
        list |-> [i \in 1..(stop - 1) |-> data_convert_type_STRING(l[i])]]

\* the source strings of the model hold no comma: one token; the dicts hold
\* at most one key
PARSE_FUNC_CSV_STRING_LIST(dst, src) ==
    CASE src.type = "list" ->
            Res("SLURM_SUCCESS", CsvItems(src.l).list,
                CsvItems(src.l).errs, << >>)
      [] src.type = "dict" ->
            LET keys == [i \in 1..Cardinality(DOMAIN src.d) |->
                            CHOOSE k \in DOMAIN src.d : TRUE]
                part == CsvItems([i \in DOMAIN keys |-> src.d[keys[i]]])
            IN Res("SLURM_SUCCESS",
                   [i \in DOMAIN part.list |->
                       [value |-> part.list[i], key |-> keys[i]]],
                   part.errs, << >>)
      [] OTHER ->
            LET c == data_convert_type_STRING(src)
            IN IF c.type # "string"
               THEN Res("SLURM_SUCCESS", << >>,
                        << "Expected dictionary or list or string" >>, << >>)
               ELSE IF c.kind = "" THEN Ok(<< >>)
               ELSE Ok(<< c >>)

(***************************************************************************)
(* core_specification / thread_specification: two linked fields of the job *)
(* descriptor on the one native field core_spec.                           *)
(***************************************************************************)
CORE_SPEC_THREAD == Pow2(15)

PARSE_FUNC_CORE_SPEC(dst, src) ==
    LET c == data_convert_type_INT_64(src)
    IN IF c.type # "int"
       THEN parse_error("ESLURM_DATA_CONV_FAILED", dst,
                        "Expected integer for core specification")
       ELSE IF c.i >= CORE_SPEC_THREAD
       THEN parse_error("ESLURM_INVALID_CORE_CNT", dst,
                        "Invalid core specification >= CORE_SPEC_THREAD")
       ELSE IF c.i <= 0
       THEN parse_error("ESLURM_INVALID_CORE_CNT", dst,
                        "Invalid core specification <= 0")
       ELSE Ok(c.i)

DUMP_FUNC_CORE_SPEC(mem) ==
    IF mem < CORE_SPEC_THREAD THEN DInt(mem) ELSE DInt(0)

PARSE_FUNC_THREAD_SPEC(dst, src) ==
    LET c == data_convert_type_INT_64(src)
    IN IF c.type # "int"
       THEN parse_error("ESLURM_DATA_CONV_FAILED", dst,
                        "Expected integer for thread specification")
       ELSE IF c.i >= CORE_SPEC_THREAD
       THEN parse_error("ESLURM_BAD_THREAD_PER_CORE", dst,
                        "Invalid thread specification >= CORE_SPEC_THREAD")
       ELSE IF c.i <= 0
       THEN parse_error("ESLURM_BAD_THREAD_PER_CORE", dst,
                        "Invalid thread specification <= 0")
       ELSE Ok(c.i + CORE_SPEC_THREAD)

DUMP_FUNC_THREAD_SPEC(mem) ==
    IF mem >= CORE_SPEC_THREAD THEN DInt(mem - CORE_SPEC_THREAD) ELSE DInt(0)

\* PARSER_ARRAY(JOB_DESC_MSG), the two entries on core_spec: dump
DumpJobDescCoreSpec(spec) ==
    DDict([core_specification |-> DUMP_FUNC_CORE_SPEC(spec),
           thread_specification |-> DUMP_FUNC_THREAD_SPEC(spec)])

\* ... and parse, each present key in the order of the table, both writing
\* core_spec
ParseJobDescCoreSpec(dst, src) ==
    IF src.type # "dict"
    THEN parse_error("ESLURM_DATA_EXPECTED_DICT", dst, "expected dict")
    ELSE CHOOSE out \in UNION
           { { Res(FirstRc(<< r1, r2 >>), r2.val,
                   r1.errs \o r2.errs, r1.warns \o r2.warns) :
               r2 \in { IF "thread_specification" \in DOMAIN src.d
                        THEN PARSE_FUNC_THREAD_SPEC(
                                 r1.val, src.d.thread_specification)
                        ELSE Ok(r1.val) } } :
             r1 \in { IF "core_specification" \in DOMAIN src.d
                      THEN PARSE_FUNC_CORE_SPEC(dst, src.d.core_specification)
                      ELSE Ok(dst) } } : TRUE

(***************************************************************************)
(* QOS_ID: the id is dumped as the name found in args->qos_list.           *)
(***************************************************************************)
\* the global QOS list of the runs: one record with a name, one without
qos_list == << [name |-> "normal", id |-> 1], [name |-> "", id |-> 2] >>

\* list_find_first(args->qos_list, slurmdb_find_qos_in_list, qos_id): the
\* position of the record, 0 if there is none
slurmdb_find_qos_in_list(list, qos_id) ==
    LET hit == {i \in 1..Len(list) : list[i].id = qos_id}
    IN IF hit = {} THEN 0 ELSE CHOOSE i \in hit : \A j \in hit : i <= j

\* the node dumped (a node nothing is set on stays null) and the warnings
DUMP_FUNC_QOS_ID(qos_id, complex) ==
    LET pos == slurmdb_find_qos_in_list(qos_list, qos_id)
    IN IF qos_id = 0 \/ qos_id = INFINITE
       THEN [warns |-> << >>, tree |-> IF complex THEN DNull ELSE DStr("", 0)]
       ELSE IF pos # 0 /\ qos_list[pos].name # ""
       THEN [warns |-> << >>, tree |-> DStr(qos_list[pos].name, 0)]
       ELSE IF pos # 0 /\ qos_list[pos].id # 0
       THEN [warns |-> << >>, tree |-> DStr("numeral", qos_list[pos].id)]
       ELSE IF ~ complex
       THEN [warns |-> << "Unknown QOS. Unable to dump QOS." >>,
             tree |-> DStr("Unknown", 0)]
       ELSE [warns |-> << >>, tree |-> DNull]

(***************************************************************************)
(* Flag arrays.  A flag word is the set of the positions of its 1 bits, so *)
(* that & is \cap, | is \cup and a mask takes all 32 bits.  An entry of a   *)
(* table is add_flag_bit_entry(type, value, mask, name, hidden).           *)
(***************************************************************************)
\* the word of a number below 256
BitsOf(n) == {b \in 0..7 : (n \div Pow2(b)) % 2 = 1}
\* BIT(n)
BIT(n) == {n}
NO_VAL_WORD == 1..31
INFINITE_WORD == 0..31

FlagEqual(value, mask, name, hidden) ==
    [type |-> "EQUAL", value |-> value, name |-> name, hidden |-> hidden,
     mask |-> mask]
FlagBit(value, mask, name, hidden) ==
    [type |-> "BIT", value |-> value, name |-> name, hidden |-> hidden,
     mask |-> mask]

\* enum node_states and the node state flags
NODE_STATE_BASE == 0..3
NODE_STATE_FLAGS == 4..31
NODE_STATE_MIXED == BitsOf(5)
NODE_STATE_NET == BIT(4)
NODE_STATE_DRAIN == BIT(9)

\* the names of the base states UNKNOWN (0) .. FUTURE (6)
NodeBaseNames ==
    << "UNKNOWN", "DOWN", "IDLE", "ALLOCATED", "ERROR", "MIXED", "FUTURE" >>

\* the names of the flags, as the table declares them: the first is
\* NODE_STATE_NET, BIT(4), each next one the next bit
NodeFlagNames_drain_first ==
    << "DRAIN", "RESERVED", "UNDRAIN", "CLOUD", "RESUME", "PERFCTRS",
       "COMPLETING", "NOT_RESPONDING", "POWERED_DOWN", "FAIL",
       "POWERING_UP", "MAINTENANCE", "REBOOT_REQUESTED",
       "REBOOT_CANCELED", "POWERING_DOWN", "DYNAMIC_FUTURE",
       "REBOOT_ISSUED", "PLANNED", "INVALID_REG", "POWER_DOWN",
       "POWER_UP", "POWER_DRAIN", "DYNAMIC_NORM" >>

NodeFlagNames ==
    << "PERFCTRS", "RESERVED", "UNDRAIN", "CLOUD", "RESUME", "DRAIN",
       "COMPLETING", "NOT_RESPONDING", "POWERED_DOWN", "FAIL",
       "POWERING_UP", "MAINTENANCE", "REBOOT_REQUESTED",
       "REBOOT_CANCELED", "POWERING_DOWN", "DYNAMIC_FUTURE",
       "REBOOT_ISSUED", "PLANNED", "INVALID_REG", "POWER_DOWN",
       "POWER_UP", "POWER_DRAIN", "DYNAMIC_NORM" >>

PARSER_FLAG_ARRAY_NODE_STATES_idle_named_down ==
    << FlagEqual(NO_VAL_WORD, INFINITE_WORD, "INVALID", FALSE) >>
    \o [i \in 1..Len(NodeBaseNames) |->
          FlagEqual(BitsOf(i - 1), NODE_STATE_BASE,
                    IF NodeBaseNames[i] = "IDLE" THEN "DOWN"
                    ELSE NodeBaseNames[i], FALSE)]
    \o [i \in 1..Len(NodeFlagNames) |->
          FlagBit(BIT(3 + i), NODE_STATE_FLAGS, NodeFlagNames[i], FALSE)]

PARSER_FLAG_ARRAY_NODE_STATES ==
    << FlagEqual(NO_VAL_WORD, INFINITE_WORD, "INVALID", FALSE) >>
    \o [i \in 1..Len(NodeBaseNames) |->
          FlagEqual(BitsOf(i - 1), NODE_STATE_BASE, NodeBaseNames[i], FALSE)]
    \o [i \in 1..Len(NodeFlagNames) |->
          FlagBit(BIT(3 + i), NODE_STATE_FLAGS, NodeFlagNames[i], FALSE)]

\* enum job_states and the job state flags
JOB_STATE_BASE == 0..7
JOB_STATE_FLAGS == 8..31

\* JOB_PENDING (0) .. JOB_OOM (11); JOB_END (12) is the hidden placeholder
JobBaseNames ==
    << "PENDING", "RUNNING", "SUSPENDED", "COMPLETED", "CANCELLED",
       "FAILED", "TIMEOUT", "NODE_FAIL", "PREEMPTED", "BOOT_FAIL",
       "DEADLINE", "OUT_OF_MEMORY" >>
\* the first is JOB_LAUNCH_FAILED, BIT(8), each next one the next bit
JobFlagNames ==
    << "LAUNCH_FAILED", "UPDATE_DB", "REQUEUED", "REQUEUE_HOLD",
       "SPECIAL_EXIT", "RESIZING", "CONFIGURING", "COMPLETING",
       "STOPPED", "RECONFIG_FAIL", "POWER_UP_NODE", "REVOKED",
       "REQUEUE_FED", "RESV_DEL_HOLD", "SIGNALING", "STAGE_OUT" >>

PARSER_FLAG_ARRAY_JOB_STATE_placeholder_last ==
    [i \in 1..Len(JobBaseNames) |->
        FlagEqual(BitsOf(i - 1), JOB_STATE_BASE, JobBaseNames[i], FALSE)]
    \o [i \in 1..Len(JobFlagNames) |->
          FlagBit(BIT(7 + i), JOB_STATE_FLAGS, JobFlagNames[i], FALSE)]
    \o << FlagEqual(BitsOf(Len(JobBaseNames)), JOB_STATE_BASE,
                    "invalid-placeholder", TRUE) >>

PARSER_FLAG_ARRAY_JOB_STATE ==
    [i \in 1..Len(JobBaseNames) |->
        FlagEqual(BitsOf(i - 1), JOB_STATE_BASE, JobBaseNames[i], FALSE)]
    \o << FlagEqual(BitsOf(Len(JobBaseNames)), JOB_STATE_BASE,
                    "invalid-placeholder", TRUE) >>
    \o [i \in 1..Len(JobFlagNames) |->
          FlagBit(BIT(7 + i), JOB_STATE_FLAGS, JobFlagNames[i], FALSE)]

\* flag-array engine, dump: the first EQUAL entry that matches under its
\* mask, then every BIT entry whose value is set under its mask, in the
\* order of the table; hidden entries are never emitted
FlagMatches(e, v) ==
    /\ ~ e.hidden
    /\ IF e.type = "EQUAL" THEN (v \cap e.mask) = e.value
       ELSE ((v \cap e.mask) \cap e.value) = e.value

DumpFlagArray(table, v) ==
    LET eq == {i \in 1..Len(table) :
                  table[i].type = "EQUAL" /\ FlagMatches(table[i], v)}
        Emitted(i) ==
            IF table[i].type = "EQUAL"
            THEN i \in eq /\ \A j \in eq : i <= j
            ELSE FlagMatches(table[i], v)
        Picked(e) == e.emit
        marked == [i \in 1..Len(table) |->
                      [name |-> table[i].name, emit |-> Emitted(i)]]
        picked == SelectSeq(marked, Picked)
    IN DList([i \in 1..Len(picked) |-> DStr(picked[i].name, 0)])

\* ... and parse of one token into the word: a matched BIT entry ORs its
\* value in under its mask, a matched EQUAL entry overwrites the word under
\* its mask; an unknown token is a warning
ParseFlagToken(table, word, token) ==
    LET hit == {i \in 1..Len(table) :
                   ~ table[i].hidden /\ token.type = "string"
                   /\ table[i].name = token.kind}
        e == table[CHOOSE i \in hit : \A j \in hit : i <= j]
    IN IF hit = {} THEN Res("SLURM_SUCCESS", word, << >>, << "Unknown flag" >>)
       ELSE IF e.type = "BIT" THEN Ok(word \cup (e.value \cap e.mask))
       ELSE Ok((word \ e.mask) \cup (e.value \cap e.mask))

RECURSIVE ParseFlagTokens(_, _, _)
ParseFlagTokens(table, word, tokens) ==
    IF tokens = << >> THEN Ok(word)
    ELSE CHOOSE out \in UNION
           { { Res(r2.rc, r2.val, r1.errs \o r2.errs, r1.warns \o r2.warns) :
               r2 \in { ParseFlagTokens(table, r1.val, Tail(tokens)) } } :
             r1 \in { ParseFlagToken(table, word, Head(tokens)) } } : TRUE

ParseFlagArray(table, dst, src) ==
    IF src.type # "list"
    THEN parse_error("ESLURM_DATA_FLAGS_INVALID_TYPE", dst, "expected flags")
    ELSE ParseFlagTokens(table, dst, src.l)

(***************************************************************************)
(* The flag arrays registered in parsers[] by addfa(), in the order of the *)
(* registry, each with the types of the entries of its table in the order  *)
(* the table declares them: E for an entry made by add_flag_equal or       *)
(* add_flag_eq, B for one made by add_flag_bit, add_flag_masked_bit or     *)
(* add_flag.                                                               *)
(***************************************************************************)
parsers_flag_arrays ==
    LET E == "EQUAL"
        B == "BIT"
        Types(table) == [i \in 1..Len(table) |-> table[i].type]
    IN << 
          [bits |-> << B >>, type |-> "ASSOC_FLAGS"],
          [bits |-> << E, B >>, type |-> "USER_FLAGS"],
          [bits |-> << E, E, B, B, B, B, B >>, type |-> "SLURMDB_JOB_FLAGS"],
          [bits |-> << B >>, type |-> "ACCOUNT_FLAGS"],
          [bits |-> << B >>, type |-> "WCKEY_FLAGS"],
          [bits |-> << B, B, B, B, B, B, B, B, B, B, B, B, B, B >>,
             type |-> "QOS_FLAGS"],
          [bits |-> << E, B, B, B, B >>, type |-> "QOS_PREEMPT_MODES"],
          [bits |-> << B, B, B, B, B >>, type |-> "CLUSTER_REC_FLAGS"],
          [bits |-> Types(PARSER_FLAG_ARRAY_NODE_STATES),
             type |-> "NODE_STATES"],
          [bits |-> << E, E, E, E, E >>, type |-> "PARTITION_STATES"],
          [bits |-> << B, B, B, B, B, B, B, B, B, B, B, B, B, B, B, B, B,
                B, B, B, B, B, B, B, B, B, B, B, B, B, B, B, B >>,
             type |-> "JOB_FLAGS"],
          [bits |-> << B, B, B, B, B, B, B >>, type |-> "JOB_SHOW_FLAGS"],
          [bits |-> << B, B, B, B, B, B, B, B, B, B, B >>,
             type |-> "JOB_MAIL_FLAGS"],
          [bits |-> << B, B, B, B, B, B, B, B, B, B, B, B, B, B, B, B, B,
                B, B, B, B, B, B, B, B, B, B, B, B, B, B, B, B, B >>,
             type |-> "RESERVATION_FLAGS"],
          [bits |-> << E, E, E, E, E, E, E, E, E, E, E, B, B >>,
             type |-> "CPU_BINDING_FLAGS"],
          [bits |-> << B, B, B, B, B >>, type |-> "CRON_ENTRY_FLAGS"],
          [bits |-> << E, E, E, E, E, B, B, B >>,
             type |-> "MEMORY_BINDING_TYPE"],
          [bits |-> << B, B, B, B, B, B, B, B, B, B >>, type |-> "WARN_FLAGS"],
          [bits |-> << B, B, B, B >>, type |-> "X11_FLAGS"],
          [bits |-> << B, B >>, type |-> "OPEN_MODE"],
          [bits |-> << E, E, B, B, B, B >>, type |-> "ACCT_GATHER_PROFILE"],
          [bits |-> << E, E, E, E >>, type |-> "ADMIN_LVL"],
          [bits |-> << E, E, E, E >>, type |-> "JOB_SHARED"],
          [bits |-> << E, E, E, E >>, type |-> "JOB_EXCLUSIVE_FLAGS"],
          [bits |-> << B >>, type |-> "OVERSUBSCRIBE_FLAGS"],
          [bits |-> << B, B, B, B, B, B, B, B, B, B >>,
             type |-> "JOB_CONDITION_FLAGS"],
          [bits |-> << E, E, B, B, B, B, B >>,
             type |-> "JOB_CONDITION_DB_FLAGS"],
          [bits |-> << E, B, B, B >>, type |-> "CLUSTER_CLASSIFICATION"],
          [bits |-> << E, B, B, B >>, type |-> "FLAGS"],
          [bits |-> Types(PARSER_FLAG_ARRAY_JOB_STATE), type |-> "JOB_STATE"],
          [bits |-> << E, E, E, E, E, E, E >>,
             type |-> "PROCESS_EXIT_CODE_STATUS"],
          [bits |-> << E, E, E, E >>, type |-> "STEP_NAMES"],
          [bits |-> << E, E >>, type |-> "ASSOC_SHARES_OBJ_WRAP_TYPE"],
          [bits |-> << B >>, type |-> "WCKEY_TAG_FLAGS"],
          [bits |-> << E, B, B, B, B >>, type |-> "NEED_PREREQS_FLAGS"],
          [bits |-> << E, E, E, B, B, B, B, B, B, B >>, type |-> "CR_TYPE"],
          [bits |-> << E, E, E >>, type |-> "NODE_CR_TYPE"],
          [bits |-> << E, E, B, B >>, type |-> "JOB_RES_CORE_STATUS"] >>

\* the debug self-check of one entry: found_bit after the entry, and whether
\* xassert(!*found_bit) failed on it.  The other assertions are on the
\* magic, the sizes, the names and the masks of the entry.
_check_flag_bit(type, found_bit) ==
    [found_bit |-> found_bit \/ type = "BIT",
     failed |-> type = "EQUAL" /\ found_bit]

\* the for loop of check_parser_funcname over flag_bit_array, from entry i
RECURSIVE CheckFlagBits(_, _, _)
CheckFlagBits(bits, i, found_bit_type) ==
    IF i > Len(bits) THEN TRUE
    ELSE /\ ~ _check_flag_bit(bits[i], found_bit_type).failed
         /\ CheckFlagBits(bits, i + 1,
                          _check_flag_bit(bits[i], found_bit_type).found_bit)

\* TRUE when no assertion on the order fails for the parser
check_parser_funcname(parser) == CheckFlagBits(parser.bits, 1, FALSE)

(***************************************************************************)
(* The codec runs: a native value is dumped, then the dumped tree is       *)
(* parsed into a destination holding c_dst.                                *)
(***************************************************************************)
CodecTypes == {"UINT16_NO_VAL", "UINT32_NO_VAL", "UINT64_NO_VAL",
               "JOB_DESC_MSG", "PROCESS_EXIT_CODE", "CORE_SPEC", "QOS_ID",
               "NODE_STATES", "JOB_STATE", "FLAG_ARRAY"}

NativeValues(type) ==
    CASE type = "UINT16_NO_VAL" -> Samples(16)
      [] type = "UINT32_NO_VAL" -> Samples(Bits32)
      [] type = "UINT64_NO_VAL" -> Samples(Bits64)
      [] type = "JOB_DESC_MSG" ->
            Samples(Bits64) \cup {MEM_PER_CPU + n : n \in {7, 4096}}
      [] type = "PROCESS_EXIT_CODE" -> Samples(Bits32)
      [] type = "CORE_SPEC" -> Samples(16)
      [] type = "QOS_ID" -> Samples(Bits32)
      [] type = "NODE_STATES" ->
            {BitsOf(b) \cup f : b \in {0, 1, 2, 5, 6, 7, 15},
                                f \in SUBSET {4, 9, 26, 30}}
            \cup {NO_VAL_WORD, INFINITE_WORD}
      [] type = "JOB_STATE" ->
            {BitsOf(b) \cup f : b \in {0, 1, 11, 12, 13},
                                f \in SUBSET {8, 23, 24}}
      \* the position in parsers_flag_arrays of the parser to check
      [] type = "FLAG_ARRAY" -> 1..Len(parsers_flag_arrays)

NoResult(dst) == Res("NONE", dst, << >>, << >>)

CodecIdle ==
    /\ c_type = "" /\ c_complex = FALSE /\ c_native = 0 /\ c_dst = 0
    /\ c_tree = DNull /\ c_out = NoResult(0) /\ c_phase = "idle"

CodecInit ==
    /\ c_type \in CodecTypes
    /\ c_complex \in BOOLEAN
    /\ c_native \in NativeValues(c_type)
    /\ c_dst \in {0, 1}
    /\ c_tree = DNull
    /\ c_out = NoResult(c_dst)
    /\ c_phase = "start"

Dumped(type, tree) ==
    /\ c_phase = "start" /\ c_type = type
    /\ c_tree' = tree
    /\ c_phase' = "dumped"
    /\ UNCHANGED << c_type, c_complex, c_native, c_dst, c_out >>
    /\ UNCHANGED << bbVars, lockVars, procVars >>

Parsed(type, out) ==
    /\ c_phase = "dumped" /\ c_type = type
    /\ c_out' = out
    /\ c_phase' = "parsed"
    /\ UNCHANGED << c_type, c_complex, c_native, c_dst, c_tree >>
    /\ UNCHANGED << bbVars, lockVars, procVars >>

DumpUINT16_NO_VAL ==
    Dumped("UINT16_NO_VAL", DUMP_FUNC_UINT16_NO_VAL(c_native, c_complex))
ParseUINT16_NO_VAL ==
    Parsed("UINT16_NO_VAL", PARSE_FUNC_UINT16_NO_VAL(c_dst, c_tree))

DumpUINT32_NO_VAL ==
    Dumped("UINT32_NO_VAL", DUMP_FUNC_UINT32_NO_VAL(c_native, c_complex))
ParseUINT32_NO_VAL ==
    Parsed("UINT32_NO_VAL", PARSE_FUNC_UINT32_NO_VAL(c_dst, c_tree))

DumpUINT64_NO_VAL ==
    Dumped("UINT64_NO_VAL", DUMP_FUNC_UINT64_NO_VAL(c_native, c_complex))
ParseUINT64_NO_VAL ==
    Parsed("UINT64_NO_VAL", PARSE_FUNC_UINT64_NO_VAL(c_dst, c_tree))

DumpJOB_DESC_MSG ==
    Dumped("JOB_DESC_MSG", DumpJobDescMem(c_native, c_complex))
ParseJOB_DESC_MSG ==
    Parsed("JOB_DESC_MSG", ParseJobDescMem(c_dst, c_tree))

DumpPROCESS_EXIT_CODE ==
    Dumped("PROCESS_EXIT_CODE", DUMP_FUNC_PROCESS_EXIT_CODE(c_native, c_complex))
ParsePROCESS_EXIT_CODE ==
    \E garbage \in {0, 1} :
        Parsed("PROCESS_EXIT_CODE",
               PARSE_FUNC_PROCESS_EXIT_CODE(c_dst, c_tree, garbage))

DumpCORE_SPEC ==
    Dumped("CORE_SPEC", DumpJobDescCoreSpec(c_native))
ParseCORE_SPEC ==
    Parsed("CORE_SPEC", ParseJobDescCoreSpec(c_dst, c_tree))

DumpNODE_STATES ==
    Dumped("NODE_STATES",
           DumpFlagArray(PARSER_FLAG_ARRAY_NODE_STATES, c_native))
ParseNODE_STATES ==
    Parsed("NODE_STATES",
           ParseFlagArray(PARSER_FLAG_ARRAY_NODE_STATES, BitsOf(c_dst), c_tree))

DumpJOB_STATE ==
    Dumped("JOB_STATE", DumpFlagArray(PARSER_FLAG_ARRAY_JOB_STATE, c_native))
ParseJOB_STATE ==
    Parsed("JOB_STATE",
           ParseFlagArray(PARSER_FLAG_ARRAY_JOB_STATE, BitsOf(c_dst), c_tree))

\* the dump of a QOS_ID also leaves its warnings in args
DumpQOS_ID ==
    /\ c_phase = "start" /\ c_type = "QOS_ID"
    /\ c_tree' = DUMP_FUNC_QOS_ID(c_native, c_complex).tree
    /\ c_out' = Res("SLURM_SUCCESS", c_dst, << >>,
                    DUMP_FUNC_QOS_ID(c_native, c_complex).warns)
    /\ c_phase' = "dumped"
    /\ UNCHANGED << c_type, c_complex, c_native, c_dst >>
    /\ UNCHANGED << bbVars, lockVars, procVars >>

\* the self-check of a flag array parser, as parsers_init() runs it on
\* every entry of parsers[]
CheckFLAG_ARRAY ==
    /\ c_phase = "start" /\ c_type = "FLAG_ARRAY"
    /\ c_out' = IF check_parser_funcname(parsers_flag_arrays[c_native])
                THEN Ok(c_dst) ELSE Fail("xassert", c_dst)
    /\ c_phase' = "checked"
    /\ UNCHANGED << c_type, c_complex, c_native, c_dst, c_tree >>
    /\ UNCHANGED << bbVars, lockVars, procVars >>

(***************************************************************************)
(* The parse runs: a request node is parsed into a destination holding     *)
(* c_dst.                                                                  *)
(***************************************************************************)
ParseTypes == {"INT32", "NICE", "SIGNAL", "TIMESTAMP", "FLOAT64", "FLOAT128",
               "CSV_STRING_LIST", "UINT16_NO_VAL", "JOB_DESC_MSG_RLIMIT"}

\* the integers of the requests: both ends of int32_t and of the nice range,
\* the signal numbers, and values no int32_t holds
SignedSamples ==
    {x \in Around(0) \cup Around(SIGRTMAX)
              \cup Around(NICE_OFFSET - 3) \cup Around(3 - NICE_OFFSET)
              \cup Around(INT32_MAX) \cup Around(INT32_MIN)
              \cup {-10, 15, 4097, Pow2(Bits64 - 1) - 1, - Pow2(Bits64 - 1)} :
        - Pow2(Bits64 - 1) <= x /\ x < Pow2(Bits64 - 1)}

ParseInputs ==
    {DNull, DBool(TRUE)}
    \cup {DInt(i) : i \in SignedSamples}
    \cup {DStr("numeral", 4097), DStr("signame", 15), DStr("time", 100),
          DStr("text", 0), DStr("", 0), DStr("Infinity", 0)}
    \cup {DFloat("finite", 3), DFloat("nan", 0), DFloat("inf", 0)}
    \cup {DList(<< >>), DList(<< DStr("text", 1), DInt(2) >>),
          DList(<< DStr("text", 1), DList(<< >>), DStr("text", 3) >>)}
    \cup {DDict([key |-> DStr("text", 1)]), DDict([key |-> DList(<< >>)])}

\* what the destination holds before the call
PriorContent(type) ==
    CASE type \in {"FLOAT64", "FLOAT128"} -> {Float(0), Float(7)}
      [] type = "CSV_STRING_LIST" -> {<< >>, << DStr("text", 9) >>}
      \* a job descriptor whose environment is still empty
      [] type = "JOB_DESC_MSG_RLIMIT" ->
            {[environment |-> << >>, env_size |-> 0]}
      [] OTHER -> {0, 1}

ParseInit ==
    /\ c_type \in ParseTypes
    /\ c_complex = FALSE
    /\ c_native = 0
    /\ c_dst \in PriorContent(c_type)
    /\ c_tree = DNull
    /\ c_out = NoResult(c_dst)
    /\ c_phase = "input"

Fed(type, src, out) ==
    /\ c_phase = "input" /\ c_type = type
    /\ c_tree' = src
    /\ c_out' = out
    /\ c_phase' = "parsed"
    /\ UNCHANGED << c_type, c_complex, c_native, c_dst >>
    /\ UNCHANGED << bbVars, lockVars, procVars >>

ParseINT32 ==
    \E src \in ParseInputs : Fed("INT32", src, PARSE_FUNC_INT32(c_dst, src))
ParseNICE ==
    \E src \in ParseInputs, cont \in BOOLEAN :
        Fed("NICE", src, PARSE_FUNC_NICE(c_dst, src, cont))
ParseSIGNAL ==
    \E src \in ParseInputs : Fed("SIGNAL", src, PARSE_FUNC_SIGNAL(c_dst, src))
ParseTIMESTAMP ==
    \E src \in ParseInputs :
        Fed("TIMESTAMP", src, PARSE_FUNC_TIMESTAMP(c_dst, src))
ParseFLOAT64 ==
    \E src \in ParseInputs : Fed("FLOAT64", src, PARSE_FUNC_FLOAT64(c_dst, src))
ParseFLOAT128 ==
    \E src \in ParseInputs :
        Fed("FLOAT128", src, PARSE_FUNC_FLOAT128(c_dst, src))
ParseCSV_STRING_LIST ==
    \E src \in ParseInputs :
        Fed("CSV_STRING_LIST", src, PARSE_FUNC_CSV_STRING_LIST(c_dst, src))

\* the integers a request may carry for a 16 bit field: the ends of
\* uint16_t, values above it, and the 32 and 64 bit sentinels
Uint16Requests ==
    ParseInputs
    \cup {DInt(i) : i \in Around(INFINITE16) \cup {7, 70000, 2 * Pow2(16) - 2}
                          \cup Around(NO_VAL) \cup {NO_VAL64, INFINITE64}}

RequestUINT16_NO_VAL ==
    \E src \in Uint16Requests :
        Fed("UINT16_NO_VAL", src, PARSE_FUNC_UINT16_NO_VAL(c_dst, src))

(***************************************************************************)
(* The rlimit fields of a job descriptor.  They are kept in the job's      *)
(* environment: environment maps a variable's name to the number its       *)
(* string value spells, env_size is the number of variables.               *)
(***************************************************************************)
\* the rlimits entries of PARSER_ARRAY(JOB_DESC_MSG), each with the variable
\* its PARSE_FUNC and DUMP_FUNC pass as name
job_desc_msg_rlimits ==
    << [name |-> "SLURM_RLIMIT_CPU", key |-> "rlimits/cpu"],
       [name |-> "SLURM_RLIMIT_FSIZE", key |-> "rlimits/fsize"],
       [name |-> "SLURM_RLIMIT_DATA", key |-> "rlimits/data"],
       [name |-> "SLURM_RLIMIT_STACK", key |-> "rlimits/stack"],
       [name |-> "SLURM_RLIMIT_CORE", key |-> "rlimits/core"],
       [name |-> "SLURM_RLIMIT_RSS", key |-> "rlimits/rss"],
       [name |-> "SLURM_RLIMIT_NPROC", key |-> "rlimits/nproc"],
       [name |-> "SLURM_RLIMIT_NOFILE", key |-> "rlimits/nofile"],
       [name |-> "SLURM_RLIMIT_MEMLOCK", key |-> "rlimits/memlock"],
       [name |-> "SLURM_RLIMIT_AS", key |-> "rlimits/as"] >>

_parse_job_rlimit(job, src, name) ==
    CHOOSE out \in
      { IF r.rc # "SLURM_SUCCESS" THEN Res(r.rc, job, r.errs, r.warns)
        ELSE IF r.val # NO_VAL64
        THEN LET environment == (name :> r.val) @@ job.environment
             IN Ok([environment |-> environment,
                    env_size |-> Cardinality(DOMAIN environment)])
        ELSE Ok(job) :
        r \in { PARSE_FUNC_UINT64_NO_VAL(NO_VAL64, src) } } : TRUE

\* name is not used: the variable looked up is SLURM_RLIMIT_CPU
_dump_job_rlimit(job, name, complex) ==
    LET str_limit == IF "SLURM_RLIMIT_CPU" \in DOMAIN job.environment
                     THEN DStr("numeral", job.environment["SLURM_RLIMIT_CPU"])
                     ELSE DNull
    IN CHOOSE out \in
         { IF r.rc # "SLURM_SUCCESS" THEN Res(r.rc, DNull, r.errs, r.warns)
           ELSE Res(r.rc, DUMP_FUNC_UINT64_NO_VAL(r.val, complex),
                    r.errs, r.warns) :
           r \in { IF str_limit # DNull
                   THEN PARSE_FUNC_UINT64_NO_VAL(NO_VAL64, str_limit)
                   ELSE Ok(NO_VAL64) } } : TRUE

\* the rlimits fields present in src parsed in the order of the array, from
\* entry i on; the first failure ends the parse
RECURSIVE ParseRlimits(_, _, _)
ParseRlimits(job, src, i) ==
    IF i > Len(job_desc_msg_rlimits) THEN Ok(job)
    ELSE IF job_desc_msg_rlimits[i].key \notin DOMAIN src.d
    THEN ParseRlimits(job, src, i + 1)
    ELSE CHOOSE out \in
           { IF r.rc # "SLURM_SUCCESS" THEN r
             ELSE ParseRlimits(r.val, src, i + 1) :
             r \in { _parse_job_rlimit(job, src.d[job_desc_msg_rlimits[i].key],
                                       job_desc_msg_rlimits[i].name) } } : TRUE

\* ... and dumped, every field of the array
DumpRlimits(job, complex) ==
    LET rs == [i \in 1..Len(job_desc_msg_rlimits) |->
                 _dump_job_rlimit(job, job_desc_msg_rlimits[i].name, complex)]
    IN Res(FirstRc(rs),
           DDict([k \in {job_desc_msg_rlimits[i].key :
                            i \in 1..Len(job_desc_msg_rlimits)} |->
                    rs[CHOOSE i \in 1..Len(job_desc_msg_rlimits) :
                          job_desc_msg_rlimits[i].key = k].val]),
           << >>, << >>)

\* the limits a request gives: at most two of the fields, each a number or
\* null
RlimitRequests ==
    {DDict([k \in ks |-> IF k = k1 THEN v1 ELSE v2]) :
        ks \in {{job_desc_msg_rlimits[i].key, job_desc_msg_rlimits[j].key} :
                  i, j \in 1..Len(job_desc_msg_rlimits)},
        k1 \in {job_desc_msg_rlimits[i].key :
                  i \in 1..Len(job_desc_msg_rlimits)},
        v1 \in {DInt(5), DNull}, v2 \in {DInt(7), DStr("numeral", 4097)}}
    \cup {DDict(<< >>)}

\* the request is parsed into the job descriptor c_dst ...
ParseJOB_DESC_MSG_RLIMIT ==
    /\ c_phase = "input" /\ c_type = "JOB_DESC_MSG_RLIMIT"
    /\ \E src \in RlimitRequests :
         /\ c_tree' = src
         /\ c_out' = ParseRlimits(c_dst, src, 1)
    /\ c_dst' = c_out'.val
    /\ c_phase' = "parsed"
    /\ UNCHANGED << c_type, c_complex, c_native >>
    /\ UNCHANGED << bbVars, lockVars, procVars >>

\* ... and the descriptor is dumped
DumpJOB_DESC_MSG_RLIMIT ==
    /\ c_phase = "parsed" /\ c_type = "JOB_DESC_MSG_RLIMIT"
    /\ c_out.rc = "SLURM_SUCCESS"
    /\ c_out' = DumpRlimits(c_dst, c_complex)
    /\ c_phase' = "dumped"
    /\ UNCHANGED << c_type, c_complex, c_native, c_dst, c_tree >>
    /\ UNCHANGED << bbVars, lockVars, procVars >>

(***************************************************************************)
(* burst_buffer/generic.  A uint32_t size is the pair hi (bit 31, the      *)
(* BB_SIZE_IN_NODES flag) and lo (the low 31 bits).                        *)
(***************************************************************************)
BB_HASH_SIZE == 100
Max31 == 2147483647

U32(hi, lo) == [hi |-> hi, lo |-> lo]
Zero32 == U32(0, 0)
NO_VAL32 == U32(1, Max31 - 1)
BB_SIZE_IN_NODES == U32(1, 0)

\* a + b as uint32_t, for a and b below 2^31
Add31(a, b) ==
    IF a > Max31 - b THEN U32(1, a - (Max31 - b) - 1) ELSE U32(0, a + b)
\* unsigned comparison
Gt32(x, y) == x.hi > y.hi \/ (x.hi = y.hi /\ x.lo > y.lo)
Max32(x, y) == IF Gt32(y, x) THEN y ELSE x

\* burst buffer states (slurm.h), in the order of the state machine
BB_STATE_ALLOCATED == 1
BB_STATE_STAGING_IN == 2
BB_STATE_STAGED_IN == 3
BB_STATE_RUNNING == 4
BB_STATE_STAGING_OUT == 5
BB_STATE_STAGED_OUT == 6

(***************************************************************************)
(* A size specification is the number strtol() reads and the character     *)
(* after it; NoSpec stands for a missing specification.                    *)
(***************************************************************************)
Tok(num, suffix) == [num |-> num, suffix |-> suffix]
NoSpec == Tok(0, "none")

_get_size_num(tok) ==
    IF tok.num > 0
    THEN CASE tok.suffix \in {"m", "M"} ->
                 U32(0, (tok.num \div 1024)
                        + (IF tok.num % 1024 = 0 THEN 0 ELSE 1))
           [] tok.suffix \in {"g", "G"} -> U32(0, tok.num)
           [] tok.suffix \in {"t", "T"} ->
                 U32((tok.num \div Pow2(21)) % 2, (tok.num % Pow2(21)) * 1024)
           [] tok.suffix \in {"p", "P"} ->
                 U32((tok.num \div Pow2(11)) % 2,
                     (tok.num % Pow2(11)) * Pow2(20))
           [] tok.suffix \in {"n", "N"} -> U32(1, tok.num)
           [] OTHER -> U32(0, tok.num)
    ELSE Zero32

\* the job records of slurmctld: job id -> user id and burst_buffer ("size=")
MaxQueue == 2       \* longest job queue handed to bb_p_job_try_stage_in
MaxPolls == 3       \* the count of 0 returns saturates here
MaxGone == 1        \* job records slurmctld purges
MaxRestarts == 1    \* stage-outs started again on a staged-out record
Now0 == 1000        \* time(NULL) at start

JobIds == {1, 2, 3}
Jobs ==
    (1 :> [job_id |-> 1, user_id |-> 1, burst_buffer |-> Tok(2, "G")])
 @@ (2 :> [job_id |-> 2, user_id |-> 1, burst_buffer |-> Tok(1, "N")])
 @@ (3 :> [job_id |-> 3, user_id |-> 101, burst_buffer |-> NoSpec])
UserIds == {1, 101}
Buckets == {u % BB_HASH_SIZE : u \in UserIds}

_get_bb_size(job_ptr) ==
    IF job_ptr.burst_buffer = NoSpec THEN Zero32
    ELSE _get_size_num(job_ptr.burst_buffer)

\* the first of the positions hit, 0 if there is none
First(hit) ==
    IF hit = {} THEN 0 ELSE CHOOSE i \in hit : \A j \in hit : i <= j

RemoveAt(chain, i) == SubSeq(chain, 1, i - 1) \o SubSeq(chain, i + 1, Len(chain))

\* bb_alloc_t.name: a text and a number, NullName for NULL
Name(text, n) == [n |-> n, text |-> text]
NullName == Name("NULL", 0)

_alloc_bb_job_rec(hash, job_ptr) ==
    LET i == job_ptr.user_id % BB_HASH_SIZE
    IN [hash EXCEPT ![i] =
          << [name |-> NullName, job_id |-> job_ptr.job_id,
              user_id |-> job_ptr.user_id, size |-> _get_bb_size(job_ptr),
              state |-> BB_STATE_ALLOCATED] >> \o @]

_alloc_bb_name_rec(hash, name, user_id) ==
    LET i == user_id % BB_HASH_SIZE
    IN [hash EXCEPT ![i] =
          << [name |-> name, job_id |-> 0, user_id |-> user_id,
              size |-> Zero32, state |-> BB_STATE_ALLOCATED] >> \o @]

\* position of the job's record in its chain, 0 for NULL
_find_bb_job_rec(hash, job_ptr) ==
    LET chain == hash[job_ptr.user_id % BB_HASH_SIZE]
    IN First({i \in 1..Len(chain) : chain[i].job_id = job_ptr.job_id})

_find_bb_name_rec(hash, name, user_id) ==
    LET chain == hash[user_id % BB_HASH_SIZE]
    IN First({i \in 1..Len(chain) : chain[i].name = name})

\* position of the user's record in its chain, 0 if it has none
UserPos(uhash, user_id) ==
    LET chain == uhash[user_id % BB_HASH_SIZE]
    IN First({i \in 1..Len(chain) : chain[i].user_id = user_id})

\* the user table after _find_user_rec(user_id): a record is created as needed
_find_user_rec(uhash, user_id) ==
    LET inx == user_id % BB_HASH_SIZE
    IN IF UserPos(uhash, user_id) # 0 THEN uhash
       ELSE [uhash EXCEPT ![inx] =
                << [user_id |-> user_id, size |-> Zero32] >> \o @]


\* user_ptr->size of the user, 0 while the user has no record
UserSize(uhash, user_id) ==
    IF UserPos(uhash, user_id) = 0 THEN Zero32
    ELSE uhash[user_id % BB_HASH_SIZE][UserPos(uhash, user_id)].size

SetUserSize(uhash, user_id, size) ==
    LET u == _find_user_rec(uhash, user_id)
    IN [u EXCEPT ![user_id % BB_HASH_SIZE][UserPos(u, user_id)].size = size]

_add_user_load(uhash, bb) ==
    LET u == UserSize(uhash, bb.user_id)
    IN SetUserSize(uhash, bb.user_id,
          IF u.hi = 1 \/ bb.size.hi = 1
          THEN U32(1, Add31(u.lo, bb.size.lo).lo)
          ELSE Add31(u.lo, bb.size.lo))

\* the new size of the user and whether "table underflow" is logged
RemovedLoad(u, size) ==
    IF u.hi = 1 \/ size.hi = 1
    THEN IF u.lo > size.lo
         THEN [size |-> U32(1, Add31(u.lo, size.lo).lo), error |-> FALSE]
         ELSE [size |-> BB_SIZE_IN_NODES, error |-> TRUE]
    ELSE IF ~ Gt32(size, u)
    THEN [size |-> U32(0, u.lo - size.lo), error |-> FALSE]
    ELSE [size |-> Zero32, error |-> TRUE]

_remove_user_load(uhash, bb) ==
    SetUserSize(uhash, bb.user_id,
                RemovedLoad(UserSize(uhash, bb.user_id), bb.size).size)

\* RET true if limit reached; the user table is read through _find_user_rec
_test_user_limit_ignores_load(uhash, limit, user_id, add_space) ==
    IF limit = NO_VAL32 THEN FALSE
    ELSE Gt32(U32(0, add_space.lo), U32(0, limit.lo))

_test_user_limit(uhash, limit, user_id, add_space) ==
    IF limit = NO_VAL32 THEN FALSE
    ELSE Gt32(Add31(UserSize(uhash, user_id).lo, add_space.lo),
              U32(0, limit.lo))

(***************************************************************************)
(* The entry points.  Each runs as one step: its body is inside            *)
(* pthread_mutex_lock(&bb_mutex) / pthread_mutex_unlock(&bb_mutex).        *)
(***************************************************************************)
Returned(name, ret, errors) ==
    /\ last_op' = name
    /\ last_ret' = ret
    /\ log_errors' = errors

\* job has a burst buffer request with a size
HasRequest(job_ptr) ==
    job_ptr.burst_buffer # NoSpec /\ _get_bb_size(job_ptr) # Zero32

\* the record of job j in the chains, for the properties
JobRecs(hash, j) ==
    {r \in UNION {{hash[b][i] : i \in 1..Len(hash[b])} : b \in Buckets} :
        r.job_id = j}

\* bb_p_job_try_stage_in: the while loop over the job queue; adm collects the
\* jobs a record is allocated for
RECURSIVE TryStageInLoop(_, _, _, _)
TryStageInLoop(queue, hash, uhash, adm) ==
    IF queue = << >> THEN [hash |-> hash, uhash |-> uhash, adm |-> adm]
    ELSE LET job_ptr == Jobs[Head(queue)]
             bb_size == _get_bb_size(job_ptr)
             uh == IF user_size_limit = NO_VAL32 THEN uhash
                   ELSE _find_user_rec(uhash, job_ptr.user_id)
         IN IF ~ HasRequest(job_ptr)
            THEN TryStageInLoop(Tail(queue), hash, uhash, adm)
            ELSE IF _test_user_limit(uhash, user_size_limit,
                                     job_ptr.user_id, bb_size)
            THEN TryStageInLoop(Tail(queue), hash, uh, adm)
            ELSE IF _find_bb_job_rec(hash, job_ptr) # 0
            THEN TryStageInLoop(Tail(queue), hash, uh, adm)
            ELSE LET h2 == _alloc_bb_job_rec(hash, job_ptr)
                     bb_ptr == Head(h2[job_ptr.user_id % BB_HASH_SIZE])
                 IN TryStageInLoop(Tail(queue), h2, _add_user_load(uh, bb_ptr),
                                   adm \cup {job_ptr.job_id})

NoPolls == [bad |-> FALSE, zeros |-> 0, one |-> FALSE]

\* the job queues: distinct jobs slurmctld still has
Queues ==
    {q \in UNION {[1..n -> job_list] : n \in 1..MaxQueue} :
        \A i, j \in 1..Len(q) : i # j => q[i] # q[j]}

bb_p_job_try_stage_in(job_queue) ==
    LET r == TryStageInLoop(job_queue, bb_hash, bb_uhash, {})
    IN /\ bb_hash' = r.hash
       /\ bb_uhash' = r.uhash
       /\ admitted' = admitted \cup r.adm
       /\ ret_hist' = [j \in JobIds |->
                         IF j \in r.adm THEN NoPolls
                         ELSE ret_hist[j]]
       /\ Returned("bb_p_job_try_stage_in", "SLURM_SUCCESS", 0)
       /\ UNCHANGED << total_space, user_size_limit, job_size_limit,
                       allow_users, deny_users, time_last_purge, now,
                       job_list, out_started, restarts, swept_at, sub_count >>
       /\ UNCHANGED << codecVars, lockVars, procVars >>

\* the state bb_p_job_test_stage_in leaves a record in, and what it returns
TestStageInStep_never_advances(state) ==
    IF state < BB_STATE_STAGED_IN THEN [state |-> state, ret |-> 0]
    ELSE IF state = BB_STATE_STAGED_IN THEN [state |-> state, ret |-> 1]
    ELSE [state |-> state, ret |-> -1]

TestStageInStep(state) ==
    IF state < BB_STATE_STAGED_IN THEN [state |-> state + 1, ret |-> 0]
    ELSE IF state = BB_STATE_STAGED_IN THEN [state |-> state, ret |-> 1]
    ELSE [state |-> state, ret |-> -1]

\* the returns are noted for a job from its admission until its stage-out
\* is started, when the notes are cleared: how many 0, whether a 1, and
\* whether a -1 or a 0 that came after a 1
Noted(j, ret) ==
    IF j \in admitted /\ j \notin out_started
    THEN [ret_hist EXCEPT ![j] =
            [bad |-> @.bad \/ ret = -1 \/ (ret = 0 /\ @.one),
             zeros |-> IF ret = 0 /\ @.zeros < MaxPolls
                       THEN @.zeros + 1 ELSE @.zeros,
             one |-> @.one \/ ret = 1]]
    ELSE ret_hist

bb_p_job_test_stage_in(j) ==
    LET job_ptr == Jobs[j]
        b == job_ptr.user_id % BB_HASH_SIZE
        pos == _find_bb_job_rec(bb_hash, job_ptr)
        step == TestStageInStep(bb_hash[b][pos].state)
        ret == IF ~ HasRequest(job_ptr) THEN 1
               ELSE IF pos = 0 THEN -1
               ELSE step.ret
    IN /\ j \in job_list
       /\ bb_hash' = IF HasRequest(job_ptr) /\ pos # 0
                     THEN [bb_hash EXCEPT ![b][pos].state = step.state]
                     ELSE bb_hash
       /\ ret_hist' = Noted(j, ret)
       /\ Returned("bb_p_job_test_stage_in", ret,
                   IF HasRequest(job_ptr) /\ pos # 0 /\ ret = -1
                   THEN 1 ELSE 0)
       /\ UNCHANGED << bb_uhash, total_space, user_size_limit, job_size_limit,
                       allow_users, deny_users, time_last_purge, now,
                       job_list, admitted, out_started, restarts,
                       swept_at, sub_count >>
       /\ UNCHANGED << codecVars, lockVars, procVars >>

\* the state bb_p_job_start_stage_out puts a record in, whatever its state
StartStageOutState_to_staged_out(state) == BB_STATE_STAGED_OUT

StartStageOutState(state) == BB_STATE_STAGING_OUT

bb_p_job_start_stage_out(j) ==
    LET job_ptr == Jobs[j]
        b == job_ptr.user_id % BB_HASH_SIZE
        pos == _find_bb_job_rec(bb_hash, job_ptr)
    IN /\ j \in job_list
       /\ IF ~ HasRequest(job_ptr)
          THEN /\ UNCHANGED << bb_hash, out_started, restarts, ret_hist >>
               /\ Returned("bb_p_job_start_stage_out", "SLURM_SUCCESS", 0)
          ELSE IF pos = 0
          THEN /\ UNCHANGED << bb_hash, out_started, restarts, ret_hist >>
               /\ Returned("bb_p_job_start_stage_out", "SLURM_ERROR", 1)
          ELSE /\ bb_hash[b][pos].state = BB_STATE_STAGED_OUT
                     => restarts < MaxRestarts
               /\ bb_hash' = [bb_hash EXCEPT ![b][pos].state =
                                  StartStageOutState(@)]
               /\ out_started' = out_started \cup {j}
               /\ ret_hist' = [ret_hist EXCEPT
                                 ![j] = NoPolls]
               /\ restarts' = IF bb_hash[b][pos].state = BB_STATE_STAGED_OUT
                              THEN restarts + 1 ELSE restarts
               /\ Returned("bb_p_job_start_stage_out", "SLURM_SUCCESS", 0)
       /\ UNCHANGED << bb_uhash, total_space, user_size_limit, job_size_limit,
                       allow_users, deny_users, time_last_purge, now,
                       job_list, admitted, swept_at, sub_count >>
       /\ UNCHANGED << codecVars, lockVars, procVars >>

bb_p_job_test_stage_out(j) ==
    LET job_ptr == Jobs[j]
        b == job_ptr.user_id % BB_HASH_SIZE
        pos == _find_bb_job_rec(bb_hash, job_ptr)
        bb_ptr == bb_hash[b][pos]
    IN /\ j \in job_list
       /\ IF ~ HasRequest(job_ptr)
          THEN /\ UNCHANGED << bb_hash, bb_uhash, sub_count >>
               /\ Returned("bb_p_job_test_stage_out", 1, 0)
          ELSE IF pos = 0
          THEN /\ UNCHANGED << bb_hash, bb_uhash, sub_count >>
               /\ Returned("bb_p_job_test_stage_out", -1, 1)
          ELSE IF bb_ptr.state = BB_STATE_STAGING_OUT
          THEN /\ bb_hash' = [bb_hash EXCEPT ![b][pos].state = @ + 1]
               /\ bb_uhash' = IF bb_ptr.state + 1 = BB_STATE_STAGED_OUT
                              THEN _remove_user_load(bb_uhash, bb_ptr)
                              ELSE bb_uhash
               /\ sub_count' = IF bb_ptr.state + 1 = BB_STATE_STAGED_OUT
                               THEN [sub_count EXCEPT ![j] = @ + 1]
                               ELSE sub_count
               /\ Returned("bb_p_job_test_stage_out", 0,
                     IF bb_ptr.state + 1 = BB_STATE_STAGED_OUT
                        /\ RemovedLoad(UserSize(bb_uhash, bb_ptr.user_id),
                                       bb_ptr.size).error
                     THEN 1 ELSE 0)
          ELSE IF bb_ptr.state = BB_STATE_STAGED_OUT
          THEN /\ UNCHANGED << bb_hash, bb_uhash, sub_count >>
               /\ Returned("bb_p_job_test_stage_out", 1, 0)
          ELSE /\ UNCHANGED << bb_hash, bb_uhash, sub_count >>
               /\ Returned("bb_p_job_test_stage_out", -1, 1)
       /\ UNCHANGED << total_space, user_size_limit, job_size_limit,
                       allow_users, deny_users, time_last_purge, now,
                       job_list, ret_hist, admitted, out_started, restarts,
                       swept_at >>
       /\ UNCHANGED << codecVars, lockVars, procVars >>

(***************************************************************************)
(* bb_p_load_state: _load_state runs GetSysState and parses its stdout,    *)
(* then _purge_bb_rec sweeps the chains.                                   *)
(***************************************************************************)
\* a "UserID=" line of the program's output
Entry(user_id, job_id, name, size, state) ==
    [name |-> name, job_id |-> job_id, user_id |-> user_id, size |-> size,
     state |-> state]

GhostJob == 9       \* a job id slurmctld has no record of

Entries ==
    { Entry(101, GhostJob, NullName, Tok(1, "G"), BB_STATE_ALLOCATED) }

\* what the program printed: the TotalSize token, if any, and the UserID lines
Responses ==
    {[total |-> NoSpec, entries |-> << >>]}
    \cup {[total |-> Tok(8, "T"), entries |-> << x >>] : x \in Entries}

\* one run of _run_script: the program is not started (not configured, not
\* a full path, not executable, pipe() or fork() fails), or it is started and
\* writes out before it exits with status exit or the poll times out
ScriptRuns ==
    {[out |-> [total |-> NoSpec, entries |-> << >>], started |-> FALSE, exit |-> 0,
      timeout |-> FALSE]}
    \cup {[out |-> o, started |-> TRUE, exit |-> x, timeout |-> t] :
            x \in {0, 1}, t \in BOOLEAN, o \in Responses}

\* the mismatch checks at the end of _parse_job_info on the record at pos
Mismatches(hash, b, pos, user_id, size) ==
    LET bb_ptr == hash[b][pos]
    IN [hash |-> [hash EXCEPT ![b][pos].size = Max32(@, size)],
        errors |-> (IF bb_ptr.user_id # user_id THEN 1 ELSE 0)
                   + (IF bb_ptr.size # size THEN 1 ELSE 0)]

_parse_job_info(hash, e) ==
    LET size == IF e.size = NoSpec THEN Zero32 ELSE _get_size_num(e.size)
        found == e.job_id # 0 /\ e.job_id \in job_list
        vestigial == IF e.job_id # 0 /\ ~ found THEN 1 ELSE 0
        name == IF e.job_id # 0 THEN Name("VestigialJob", e.job_id) ELSE e.name
    IN IF found
       THEN LET job_ptr == Jobs[e.job_id]
                b == job_ptr.user_id % BB_HASH_SIZE
                pos == _find_bb_job_rec(hash, job_ptr)
                h2 == IF pos # 0 THEN hash
                      ELSE [_alloc_bb_job_rec(hash, job_ptr)
                               EXCEPT ![b][1].state = e.state]
                m == Mismatches(h2, b, IF pos # 0 THEN pos ELSE 1,
                                e.user_id, size)
            IN [hash |-> m.hash, errors |-> m.errors]
       ELSE LET b == e.user_id % BB_HASH_SIZE
                pos == _find_bb_name_rec(hash, name, e.user_id)
            IN IF pos = 0
               THEN [hash |-> [_alloc_bb_name_rec(hash, name, e.user_id)
                                 EXCEPT ![b][1].size = size,
                                        ![b][1].state = e.state],
                     errors |-> vestigial]
               ELSE LET m == Mismatches(hash, b, pos, e.user_id, size)
                    IN [hash |-> m.hash, errors |-> vestigial + m.errors]

RECURSIVE ParseLines(_, _)
ParseLines(hash, entries) ==
    IF entries = << >> THEN [hash |-> hash, errors |-> 0]
    ELSE LET r == _parse_job_info(hash, Head(entries))
             rest == ParseLines(r.hash, Tail(entries))
         IN [hash |-> rest.hash, errors |-> r.errors + rest.errors]

\* _run_script: the response handed back (NoResponse for NULL) and the
\* error() calls made.  The exit status read by waitpid() is not looked at.
NoResponse == [total |-> NoSpec, entries |-> << >>, null |-> TRUE]

_run_script(run) ==
    IF ~ run.started THEN [errors |-> 1, resp |-> NoResponse]
    ELSE [errors |-> IF run.timeout THEN 1 ELSE 0,
          resp |-> [total |-> run.out.total, entries |-> run.out.entries,
                    null |-> FALSE]]

_load_state(hash, total, run) ==
    LET s == _run_script(run)
        r == ParseLines(hash, s.resp.entries)
    IN IF s.resp.null
       THEN [hash |-> hash, errors |-> s.errors, total |-> total]
       ELSE [hash |-> r.hash,
             errors |-> s.errors + r.errors
                        + (IF s.resp.total = NoSpec THEN 1 ELSE 0),
             total |-> IF s.resp.total # NoSpec
                       THEN _get_size_num(s.resp.total) ELSE total]

\* _purge_bb_rec on one chain: the first record that is staged out and
\* whose job is gone is unlinked, then the loop breaks
PurgeChain(chain) ==
    LET i == First({k \in 1..Len(chain) :
                       /\ chain[k].job_id # 0
                       /\ chain[k].state >= BB_STATE_STAGED_OUT
                       /\ chain[k].job_id \notin job_list})
    IN IF i = 0 THEN chain ELSE RemoveAt(chain, i)

\* the test that guards the sweep: difftime(now, time_last_purge) > 60
PurgeDue == now - time_last_purge > 60      \* Once per minute

_purge_bb_rec(hash) ==
    IF PurgeDue
    THEN [b \in Buckets |-> PurgeChain(hash[b])]
    ELSE hash

bb_p_load_state(run) ==
    LET r == _load_state(bb_hash, total_space, run)
    IN /\ bb_hash' = _purge_bb_rec(r.hash)
       /\ swept_at' = IF PurgeDue THEN now ELSE swept_at
       /\ total_space' = r.total
       /\ Returned("bb_p_load_state", "SLURM_SUCCESS", r.errors)
       /\ UNCHANGED << bb_uhash, user_size_limit, job_size_limit,
                       allow_users, deny_users, time_last_purge, now,
                       job_list, ret_hist, admitted, out_started, restarts,
                       sub_count >>
       /\ UNCHANGED << codecVars, lockVars, procVars >>

(***************************************************************************)
(* Configuration, job validation and the environment.                      *)
(***************************************************************************)
\* a uid array: NULL, or the ids before the terminating 0
NoUsers == [null |-> TRUE, ids |-> << >>]
Users(ids) == [null |-> FALSE, ids |-> ids]

\* the contents burst_buffer.conf may have
Configs ==
    { [UserSizeLimit |-> NoSpec, JobSizeLimit |-> NoSpec,
       AllowUsers |-> NoUsers, DenyUsers |-> NoUsers],
      [UserSizeLimit |-> Tok(2, "G"), JobSizeLimit |-> Tok(3, "G"),
       AllowUsers |-> Users(<< 1, 101 >>), DenyUsers |-> Users(<< 101 >>)] }

\* _load_config: _clear_config, then the options that are present
_load_config(cfg) ==
    /\ user_size_limit' = IF cfg.UserSizeLimit = NoSpec THEN NO_VAL32
                          ELSE _get_size_num(cfg.UserSizeLimit)
    /\ job_size_limit' = IF cfg.JobSizeLimit = NoSpec THEN NO_VAL32
                         ELSE _get_size_num(cfg.JobSizeLimit)
    /\ allow_users' = cfg.AllowUsers
    /\ deny_users' = cfg.DenyUsers

bb_p_reconfig(cfg) ==
    /\ _load_config(cfg)
    /\ Returned("bb_p_reconfig", "SLURM_SUCCESS", 0)
    /\ UNCHANGED << bb_hash, bb_uhash, total_space, time_last_purge, now,
                    job_list, ret_hist, admitted, out_started, restarts,
                    swept_at, sub_count >>
    /\ UNCHANGED << codecVars, lockVars, procVars >>

InList(list, uid) == \E i \in 1..Len(list.ids) : list.ids[i] = uid

\* the return value of bb_p_job_validate for a job_descriptor
ValidateResult(job_desc) ==
    LET bb_size == IF job_desc.burst_buffer = NoSpec THEN Zero32
                   ELSE _get_size_num(job_desc.burst_buffer)
    IN IF bb_size = Zero32 THEN "SLURM_SUCCESS"
       ELSE IF bb_size.hi = 1 THEN "ESLURM_BURST_BUFFER_LIMIT"  \* bb_size < 0
       ELSE IF \/ job_size_limit # NO_VAL32 /\ Gt32(bb_size, job_size_limit)
               \/ user_size_limit # NO_VAL32 /\ Gt32(bb_size, user_size_limit)
       THEN "ESLURM_BURST_BUFFER_LIMIT"
       ELSE IF ~ allow_users.null /\ ~ InList(allow_users, job_desc.user_id)
       THEN "ESLURM_BURST_BUFFER_PERMISSION"
       ELSE IF ~ deny_users.null /\ InList(deny_users, job_desc.user_id)
       THEN "ESLURM_BURST_BUFFER_PERMISSION"
       ELSE "SLURM_SUCCESS"

JobDescs ==
    {[user_id |-> u, burst_buffer |-> t] :
        u \in UserIds,
        t \in {NoSpec, Tok(2, "G"), Tok(3, "G"), Tok(4, "G"), Tok(1, "N"),
               Tok(2048, "M"), Tok(1, "T"), Tok(1, "P")}}

bb_p_job_validate(job_desc) ==
    /\ Returned("bb_p_job_validate", ValidateResult(job_desc), 0)
    /\ UNCHANGED << bb_hash, bb_uhash, total_space, user_size_limit,
                    job_size_limit, allow_users, deny_users, time_last_purge,
                    now, job_list, ret_hist, admitted, out_started, restarts,
                    swept_at, sub_count >>
    /\ UNCHANGED << codecVars, lockVars, procVars >>

\* slurmctld purges the job record of job j, once the job is done with its
\* buffer
JobGone(j) ==
    /\ j \in job_list
    /\ Cardinality(JobIds \ job_list) < MaxGone
    /\ \A r \in JobRecs(bb_hash, j) : r.state = BB_STATE_STAGED_OUT
    /\ job_list' = job_list \ {j}
    /\ UNCHANGED << bb_hash, bb_uhash, total_space, user_size_limit,
                    job_size_limit, allow_users, deny_users, time_last_purge,
                    now, last_op, last_ret, log_errors, ret_hist,
                    admitted, out_started, restarts, swept_at, sub_count >>
    /\ UNCHANGED << codecVars, lockVars, procVars >>

\* the clock of the host advances
TickLen == 30       \* seconds in one step of the clock
MaxTicks == 2       \* steps of the clock

Tick ==
    /\ now < Now0 + MaxTicks * TickLen
    /\ now' = now + TickLen
    /\ UNCHANGED << bb_hash, bb_uhash, total_space, user_size_limit,
                    job_size_limit, allow_users, deny_users, time_last_purge,
                    job_list, last_op, last_ret, log_errors, ret_hist,
                    admitted, out_started, restarts, swept_at, sub_count >>
    /\ UNCHANGED << codecVars, lockVars, procVars >>

\* the plugin after init(): _load_config and _alloc_cache
BBStart(cfg) ==
    /\ bb_hash = [b \in Buckets |-> << >>]
    /\ bb_uhash = [b \in Buckets |-> << >>]
    /\ total_space = Zero32
    /\ user_size_limit = IF cfg.UserSizeLimit = NoSpec THEN NO_VAL32
                         ELSE _get_size_num(cfg.UserSizeLimit)
    /\ job_size_limit = IF cfg.JobSizeLimit = NoSpec THEN NO_VAL32
                        ELSE _get_size_num(cfg.JobSizeLimit)
    /\ allow_users = cfg.AllowUsers
    /\ deny_users = cfg.DenyUsers
    /\ time_last_purge = 0
    /\ now = Now0
    /\ job_list = JobIds
    /\ last_op = "init"
    /\ last_ret = "SLURM_SUCCESS"
    /\ log_errors = 0
    /\ ret_hist = [j \in JobIds |-> NoPolls]
    /\ admitted = {}
    /\ out_started = {}
    /\ restarts = 0
    /\ swept_at = 0
    /\ sub_count = [j \in JobIds |-> 0]

BBIdle ==
    BBStart([UserSizeLimit |-> NoSpec, JobSizeLimit |-> NoSpec,
             AllowUsers |-> NoUsers, DenyUsers |-> NoUsers])

BBInit == \E cfg \in Configs : BBStart(cfg)

(***************************************************************************)
(* The mutex discipline.  Each entry point is the sequence of things it    *)
(* does to shared state on one path through its code: "lock" and "unlock"  *)
(* of bb_mutex, "map" for a read or write of bb_hash / bb_uhash or a       *)
(* record chained from them, "cfg" for the configuration statics, "local"  *)
(* for work on its arguments only, and "return".  A thread runs one entry  *)
(* point at a time, one step at a time; a map access begins in one step    *)
(* and ends in the next.                                                   *)
(***************************************************************************)
NumThreads == 2
Threads == 1..NumThreads

Path_init == {<< "lock", "cfg", "map", "unlock", "return" >>}
Path_fini == {<< "lock", "cfg", "map", "unlock", "return" >>}
\* no response: the purge only; a response: the lines, TotalSize, the purge
Path_bb_p_load_state ==
    {<< "lock", "cfg", "local", "map", "unlock", "return" >>,
     << "lock", "cfg", "local", "map", "cfg", "map", "unlock", "return" >>}
Path_bb_p_reconfig == {<< "lock", "cfg", "unlock", "return" >>}
Path_bb_p_state_pack == {<< "lock", "cfg", "map", "unlock", "return" >>}
\* no size or a negative one; the limits and the user lists
Path_bb_p_job_validate ==
    {<< "cfg", "local", "return" >>,
     << "cfg", "local", "lock", "cfg", "unlock", "return" >>}
\* no job with a size; the job's record exists; a record is allocated
Path_bb_p_job_try_stage_in ==
    {<< "cfg", "lock", "local", "unlock", "return" >>,
     << "cfg", "lock", "local", "map", "map", "unlock", "return" >>,
     << "cfg", "lock", "local", "map", "map", "map", "map", "cfg",
        "unlock", "return" >>}
Path_bb_p_job_test_stage_in_unlocked_find ==
    {<< "cfg", "local", "return" >>,
     << "cfg", "local", "map", "lock", "map", "unlock", "return" >>}
\* the job has no request; no record found; the record's state read, ++
Path_bb_p_job_test_stage_in ==
    {<< "cfg", "local", "return" >>,
     << "cfg", "local", "lock", "map", "unlock", "return" >>,
     << "cfg", "local", "lock", "map", "map", "unlock", "return" >>}
Path_bb_p_job_start_stage_out ==
    {<< "cfg", "local", "return" >>,
     << "cfg", "local", "lock", "map", "unlock", "return" >>,
     << "cfg", "local", "lock", "map", "map", "unlock", "return" >>}
\* as above, and with _remove_user_load
Path_bb_p_job_test_stage_out ==
    {<< "cfg", "local", "return" >>,
     << "cfg", "local", "lock", "map", "unlock", "return" >>,
     << "cfg", "local", "lock", "map", "map", "unlock", "return" >>,
     << "cfg", "local", "lock", "map", "map", "map", "unlock", "return" >>}

EntryPoints ==
    ("init" :> Path_init) @@ ("fini" :> Path_fini)
 @@ ("bb_p_load_state" :> Path_bb_p_load_state)
 @@ ("bb_p_reconfig" :> Path_bb_p_reconfig)
 @@ ("bb_p_state_pack" :> Path_bb_p_state_pack)
 @@ ("bb_p_job_validate" :> Path_bb_p_job_validate)
 @@ ("bb_p_job_try_stage_in" :> Path_bb_p_job_try_stage_in)
 @@ ("bb_p_job_test_stage_in" :> Path_bb_p_job_test_stage_in)
 @@ ("bb_p_job_start_stage_out" :> Path_bb_p_job_start_stage_out)
 @@ ("bb_p_job_test_stage_out" :> Path_bb_p_job_test_stage_out)

(***************************************************************************)
(* One call of _run_script, step by step.  rscript holds the position in   *)
(* the code (pc), max_wait, what the child does, time(NULL) - start_time   *)
(* in seconds (elapsed), new_wait, resp_offset, resp_size and the number   *)
(* of error() calls.  The child is "silent" (it never writes and never     *)
(* exits), "writer" (it always has output ready and never exits) or        *)
(* "exits" (it writes, then exits).                                        *)
(***************************************************************************)
MaxClock == 4       \* the clock is followed for this many seconds
MaxResp == 4096     \* largest resp_size followed

MaxWaits == {-1, 0, 1, 2}
Children == {"silent", "writer", "exits"}

\* no _run_script call is under way
ProcIdle == rscript = [pc |-> "idle"]

\* the call: "start" is the entry of the function
ProcInit ==
    \E w \in MaxWaits, c \in Children :
        rscript = [errors |-> 0, resp |-> "NULL", pc |-> "start", max_wait |-> w,
                   child |-> c, elapsed |-> 0, new_wait |-> 0,
                   resp_offset |-> 0, resp_size |-> 0]

ProcStep(next) ==
    /\ rscript' = next
    /\ UNCHANGED << codecVars, bbVars, lockVars >>

\* seconds that go by while the call does something that takes time: the
\* whole seconds of ms milliseconds, and one more when a second begins
Passed(ms) ==
    {d \in {ms \div 1000, ms \div 1000 + 1} : rscript.elapsed + d <= MaxClock}

\* the tests of script_path, pipe() and fork(): the child is started, or an
\* error is logged and NULL is returned
RunScriptFork ==
    /\ rscript.pc = "start"
    /\ \E started \in BOOLEAN :
          ProcStep(IF started
                   THEN [rscript EXCEPT !.pc = "while", !.resp_size = 1024,
                                        !.resp = "resp"]
                   ELSE [rscript EXCEPT !.pc = "returned", !.errors = 1])

\* the head of while (1): new_wait is computed, and the loop is left when it
\* is not positive
RunScriptWait ==
    /\ rscript.pc = "while"
    /\ LET new_wait == IF rscript.max_wait = -1 THEN -1
                       ELSE rscript.elapsed + rscript.max_wait
       IN ProcStep([rscript EXCEPT
                      !.new_wait = new_wait,
                      !.pc = IF rscript.max_wait # -1 /\ new_wait <= 0
                             THEN "killpg" ELSE "poll"])

\* poll(&fds, 1, new_wait), new_wait being milliseconds to poll(): with
\* nothing to read it returns 0 when the time is up, never for -1
RunScriptPoll ==
    /\ rscript.pc = "poll"
    /\ \/ /\ rscript.child = "silent" /\ rscript.new_wait # -1
          /\ \E d \in Passed(rscript.new_wait) :
                ProcStep([rscript EXCEPT !.pc = "killpg", !.errors = @ + 1,
                                         !.elapsed = @ + d])
       \/ /\ rscript.child \in {"writer", "exits"}
          /\ ProcStep([rscript EXCEPT !.pc = "read"])      \* POLLIN
       \/ /\ rscript.child = "exits"
          /\ ProcStep([rscript EXCEPT !.pc = "killpg"])    \* POLLHUP alone

\* read(): i bytes, 0 at the end of the output, -1 for EAGAIN, -2 for any
\* other error
RunScriptRead ==
    /\ rscript.pc = "read"
    /\ \E i \in {-2, -1, 0, 512, rscript.resp_size - rscript.resp_offset} :
          /\ rscript.child = "writer" => i \notin {-2, 0}
          /\ IF i = 0 THEN ProcStep([rscript EXCEPT !.pc = "killpg"])
             ELSE IF i = -1 THEN ProcStep([rscript EXCEPT !.pc = "while"])
             ELSE IF i = -2
             THEN ProcStep([rscript EXCEPT !.pc = "killpg", !.errors = @ + 1])
             ELSE /\ rscript.resp_offset + i + 1024 >= rscript.resp_size
                        => rscript.resp_size * 2 <= MaxResp
                  /\ \E d \in Passed(0) :
                        ProcStep([rscript EXCEPT
                           !.pc = "while",
                           !.elapsed = @ + d,
                           !.resp_offset = @ + i,
                           !.resp_size =
                              IF rscript.resp_offset + i + 1024 >= @
                              THEN @ * 2 ELSE @])

\* killpg(cpid, SIGKILL), waitpid(), close(), return resp
RunScriptKill ==
    /\ rscript.pc = "killpg"
    /\ ProcStep([rscript EXCEPT !.pc = "returned"])

LockIdle ==
    /\ t_prog = [t \in Threads |-> << >>]
    /\ t_name = [t \in Threads |-> ""]
    /\ bb_mutex = {}
    /\ t_access = [t \in Threads |-> FALSE]

\* thread t enters an entry point
Call(t) ==
    /\ t_prog[t] = << >>
    /\ \E name \in DOMAIN EntryPoints : \E path \in EntryPoints[name] :
          /\ t_prog' = [t_prog EXCEPT ![t] = path]
          /\ t_name' = [t_name EXCEPT ![t] = name]
    /\ UNCHANGED << bb_mutex, t_access >>
    /\ UNCHANGED << codecVars, bbVars, procVars >>

\* the last step done, the entry point returns
Advance(t) ==
    /\ t_prog' = [t_prog EXCEPT ![t] = Tail(@)]
    /\ t_name' = [t_name EXCEPT ![t] = IF Len(t_prog[t]) = 1 THEN "" ELSE @]

\* pthread_mutex_lock(&bb_mutex): blocks while the mutex is held
Lock(t) ==
    /\ t_prog[t] # << >> /\ Head(t_prog[t]) = "lock"
    /\ bb_mutex = {}
    /\ bb_mutex' = {t}
    /\ Advance(t)
    /\ UNCHANGED t_access
    /\ UNCHANGED << codecVars, bbVars, procVars >>

\* pthread_mutex_unlock(&bb_mutex)
Unlock(t) ==
    /\ t_prog[t] # << >> /\ Head(t_prog[t]) = "unlock"
    /\ bb_mutex' = {}
    /\ Advance(t)
    /\ UNCHANGED t_access
    /\ UNCHANGED << codecVars, bbVars, procVars >>

\* a read or write of the maps begins ...
MapBegin(t) ==
    /\ t_prog[t] # << >> /\ Head(t_prog[t]) = "map"
    /\ ~ t_access[t]
    /\ t_access' = [t_access EXCEPT ![t] = TRUE]
    /\ UNCHANGED << t_prog, t_name, bb_mutex >>
    /\ UNCHANGED << codecVars, bbVars, procVars >>

\* ... and ends
MapEnd(t) ==
    /\ t_prog[t] # << >> /\ Head(t_prog[t]) = "map"
    /\ t_access[t]
    /\ t_access' = [t_access EXCEPT ![t] = FALSE]
    /\ Advance(t)
    /\ UNCHANGED bb_mutex
    /\ UNCHANGED << codecVars, bbVars, procVars >>

\* work that touches no map
Other(t) ==
    /\ t_prog[t] # << >> /\ Head(t_prog[t]) \in {"cfg", "local", "return"}
    /\ Advance(t)
    /\ UNCHANGED << bb_mutex, t_access >>
    /\ UNCHANGED << codecVars, bbVars, procVars >>

(***************************************************************************)
(* Specifications.                                                         *)
(***************************************************************************)
\* the codecs: every run is one dump and one parse
InitCodec == CodecInit /\ BBIdle /\ LockIdle /\ ProcIdle

NextCodec ==
    \/ DumpUINT16_NO_VAL \/ ParseUINT16_NO_VAL
    \/ DumpUINT32_NO_VAL \/ ParseUINT32_NO_VAL
    \/ DumpUINT64_NO_VAL \/ ParseUINT64_NO_VAL
    \/ DumpJOB_DESC_MSG \/ ParseJOB_DESC_MSG
    \/ DumpPROCESS_EXIT_CODE \/ ParsePROCESS_EXIT_CODE
    \/ DumpCORE_SPEC \/ ParseCORE_SPEC
    \/ DumpQOS_ID
    \/ DumpNODE_STATES \/ ParseNODE_STATES
    \/ DumpJOB_STATE \/ ParseJOB_STATE
    \/ CheckFLAG_ARRAY

SpecCodec == InitCodec /\ [][NextCodec]_vars

InitParse == ParseInit /\ BBIdle /\ LockIdle /\ ProcIdle

NextParse ==
    \/ ParseINT32 \/ ParseNICE \/ ParseSIGNAL \/ ParseTIMESTAMP
    \/ ParseFLOAT64 \/ ParseFLOAT128 \/ ParseCSV_STRING_LIST
    \/ RequestUINT16_NO_VAL
    \/ ParseJOB_DESC_MSG_RLIMIT \/ DumpJOB_DESC_MSG_RLIMIT

SpecParse == InitParse /\ [][NextParse]_vars

\* the burst buffer plugin, its entry points called one after another
Init == CodecIdle /\ BBInit /\ LockIdle /\ ProcIdle

Next ==
    \/ \E q \in Queues : bb_p_job_try_stage_in(q)
    \/ \E j \in JobIds : bb_p_job_test_stage_in(j)
    \/ \E j \in JobIds : bb_p_job_start_stage_out(j)
    \/ \E j \in JobIds : bb_p_job_test_stage_out(j)
    \/ \E run \in ScriptRuns : bb_p_load_state(run)
    \/ \E cfg \in Configs : bb_p_reconfig(cfg)
    \/ \E d \in JobDescs : bb_p_job_validate(d)
    \/ \E j \in JobIds : JobGone(j)

Spec == Init /\ [][Next]_vars

\* the purge sweep over time: load_state is called while the clock advances
\* and the jobs go through their stage-out
NextPurge ==
    \/ Tick
    \/ \E run \in ScriptRuns : bb_p_load_state(run)
    \/ \E q \in Queues : bb_p_job_try_stage_in(q)
    \/ \E j \in JobIds : bb_p_job_start_stage_out(j)
    \/ \E j \in JobIds : bb_p_job_test_stage_out(j)
    \/ \E j \in JobIds : JobGone(j)

SpecPurge == Init /\ [][NextPurge]_vars

\* one call of _run_script
InitScript == CodecIdle /\ BBIdle /\ LockIdle /\ ProcInit

NextScript ==
    \/ RunScriptFork \/ RunScriptWait \/ RunScriptPoll
    \/ RunScriptRead \/ RunScriptKill

SpecScript == InitScript /\ [][NextScript]_vars

\* the entry points called from several threads
InitLock == CodecIdle /\ BBIdle /\ LockIdle /\ ProcIdle

NextLock ==
    \E t \in Threads :
        \/ Call(t) \/ Lock(t) \/ Unlock(t)
        \/ MapBegin(t) \/ MapEnd(t) \/ Other(t)

SpecLock == InitLock /\ [][NextLock]_vars

(***************************************************************************)
(* Properties of the codecs (SpecCodec).                                   *)
(***************************************************************************)
NoValTypes == {"UINT16_NO_VAL", "UINT32_NO_VAL", "UINT64_NO_VAL"}

\* the {set, infinite, number} object of an unset value
UnsetObject ==
    DDict([set |-> DBool(FALSE), infinite |-> DBool(FALSE), number |-> DInt(0)])
\* ... and of the number n
SetObject(n) ==
    DDict([set |-> DBool(TRUE), infinite |-> DBool(FALSE), number |-> DInt(n)])

\* C1: in default mode, for UINT16_NO_VAL, UINT32_NO_VAL and UINT64_NO_VAL
\* and every native value v, the sentinels included, parsing the
\* {set, infinite, number} object dumped for v succeeds and yields v.
C1_ObjectRoundTrip ==
    (c_phase = "parsed" /\ c_type \in NoValTypes /\ ~ c_complex)
        => (c_out.rc = "SLURM_SUCCESS" /\ c_out.val = c_native)

\* INFINITE went through the object form of the 32 bit codec
C1_Witness ==
    /\ c_phase = "parsed" /\ c_type = "UINT32_NO_VAL" /\ ~ c_complex
    /\ c_native = INFINITE
    /\ c_tree.type = "dict" /\ c_tree.d.infinite = DBool(TRUE)
    /\ c_out.val = INFINITE

\* C2: with COMPLEX_VALUES, for each NO_VAL wrapped codec and every native
\* value v, parsing the scalar dumped for v (null, "Infinity" or the bare
\* number) succeeds and yields v; "Infinity" parses to the INFINITE sentinel.
C2_ScalarRoundTrip ==
    (c_phase = "parsed" /\ c_type \in NoValTypes /\ c_complex)
        => (c_out.rc = "SLURM_SUCCESS" /\ c_out.val = c_native)

C4_MemPerCpuRoundTrip ==
    (c_phase = "parsed" /\ c_type = "JOB_DESC_MSG"
       /\ c_native >= MEM_PER_CPU /\ c_native \notin {NO_VAL64, INFINITE64})
        => (c_out.rc = "SLURM_SUCCESS" /\ c_out.val = c_native)

\* C10: for every waitstatus w (an exit with any code, a termination by any
\* signal, or NO_VAL), parsing the {status, return_code, signal} object
\* dumped for w succeeds and yields w.
C10_ExitCodeRoundTrip ==
    (c_phase = "parsed" /\ c_type = "PROCESS_EXIT_CODE"
       /\ (c_native = NO_VAL \/ WIFEXITED(c_native) \/ WIFSIGNALED(c_native)))
        => (c_out.rc = "SLURM_SUCCESS" /\ c_out.val = c_native)

\* C17: QOS_ID dump of an id that is neither 0 nor INFINITE and that the
\* QOS list does not hold emits "Unknown" (null with COMPLEX_VALUES) and
\* records a warning in both modes.
C17_UnknownQosWarns ==
    (c_phase = "dumped" /\ c_type = "QOS_ID"
       /\ c_native \notin {0, INFINITE}
       /\ slurmdb_find_qos_in_list(qos_list, c_native) = 0)
        => /\ c_tree = IF c_complex THEN DNull ELSE DStr("Unknown", 0)
           /\ c_out.warns # << >>

\* the names as the list of strings a flag array dumps
Names(names) == DList([i \in 1..Len(names) |-> DStr(names[i], 0)])

\* C18 as stated: NODE_STATES dumps NODE_STATE_MIXED | NODE_STATE_DRAIN |
\* NODE_STATE_NET as ["MIXED", "DRAIN", "PERFCTRS"].
C18_MixedDrainPerfctrs ==
    (c_phase \in {"dumped", "parsed"} /\ c_type = "NODE_STATES"
       /\ c_native = NODE_STATE_MIXED \cup NODE_STATE_DRAIN \cup NODE_STATE_NET)
        => c_tree = Names(<< "MIXED", "DRAIN", "PERFCTRS" >>)

\* C18, amended: the dump is ["MIXED", "PERFCTRS", "DRAIN"], the EQUAL
\* entry first and then the BIT entries in the order of the table, which
\* declares NODE_STATE_NET ("PERFCTRS") before NODE_STATE_DRAIN.
C18_MixedPerfctrsDrain ==
    (c_phase \in {"dumped", "parsed"} /\ c_type = "NODE_STATES"
       /\ c_native = NODE_STATE_MIXED \cup NODE_STATE_DRAIN \cup NODE_STATE_NET)
        => c_tree = Names(<< "MIXED", "PERFCTRS", "DRAIN" >>)

\* that value was dumped, as three names
C18_Witness ==
    /\ c_phase = "dumped" /\ c_type = "NODE_STATES"
    /\ c_native = NODE_STATE_MIXED \cup NODE_STATE_DRAIN \cup NODE_STATE_NET
    /\ Len(c_tree.l) = 3

FlagTable(type) ==
    IF type = "NODE_STATES" THEN PARSER_FLAG_ARRAY_NODE_STATES
    ELSE PARSER_FLAG_ARRAY_JOB_STATE

\* the union of the masks of the entries
MaskUnion(table) == UNION {table[i].mask : i \in 1..Len(table)}

\* v is a value the names of the table can say: one EQUAL entry that is
\* not hidden matches, and every other bit is the value of a BIT entry that
\* is not hidden
Nameable(table, v) ==
    \E i \in 1..Len(table) :
        /\ table[i].type = "EQUAL" /\ ~ table[i].hidden
        /\ (v \cap table[i].mask) = table[i].value
        /\ (v \ table[i].mask) \subseteq
              UNION {table[k].value : k \in {n \in 1..Len(table) :
                        table[n].type = "BIT" /\ ~ table[n].hidden}}

C20_CoreSpecRoundTrip ==
    (c_phase = "parsed" /\ c_type = "CORE_SPEC" /\ c_native >= 1)
        => /\ c_out.rc = "SLURM_SUCCESS" /\ c_out.errs = << >>
           /\ c_out.val = c_native

\* the EQUAL entries of a table all come before its BIT entries
EqualBeforeBit(bits) ==
    \A i, j \in 1..Len(bits) :
        (i < j /\ bits[i] = "BIT") => bits[j] # "EQUAL"

\* C23: in every flag array registered in parsers[], the EQUAL entries all
\* come before the BIT entries, and the self-check of the flag array
\* (the assertion of _check_flag_bit on the order) passes.
C23_EqualBeforeBit ==
    (c_phase = "checked" /\ c_type = "FLAG_ARRAY")
        => /\ EqualBeforeBit(parsers_flag_arrays[c_native].bits)
           /\ c_out.rc = "SLURM_SUCCESS"

\* JOB_STATE, a table with entries of both types, passed the self-check
C23_Witness ==
    /\ c_phase = "checked" /\ c_type = "FLAG_ARRAY"
    /\ parsers_flag_arrays[c_native].type = "JOB_STATE"
    /\ \E i, j \in 1..Len(parsers_flag_arrays[c_native].bits) :
          /\ parsers_flag_arrays[c_native].bits[i] = "EQUAL"
          /\ parsers_flag_arrays[c_native].bits[j] = "BIT"
    /\ c_out.rc = "SLURM_SUCCESS"

\* C30: PROCESS_EXIT_CODE dump reports status CORE_DUMPED for every
\* waitstatus of a process terminated by a signal with the core-dump flag
\* set, and SIGNALED only for a termination by a signal without core dump.
C30_CoreDumpReported ==
    (c_phase = "dumped" /\ c_type = "PROCESS_EXIT_CODE" /\ c_native # NO_VAL)
        => /\ (WIFSIGNALED(c_native) /\ WCOREDUMP(c_native))
                 => c_tree.d["status"] = DStr("CORE_DUMPED", 0)
           /\ c_tree.d["status"] = DStr("SIGNALED", 0)
                 => (WIFSIGNALED(c_native) /\ ~ WCOREDUMP(c_native))

(***************************************************************************)
(* Properties of the parsers on request nodes (SpecParse).                 *)
(***************************************************************************)
\* the call returned non-zero or recorded an error
ParseFailed == c_out.rc # "SLURM_SUCCESS" \/ c_out.errs # << >>

\* C11: whenever the parse of INT32, SIGNAL or CSV_STRING_LIST fails, an
\* error is recorded in args, the call returns a non-zero code and the
\* destination keeps the content it had before the call.
C11_FailedParseKeepsField ==
    (c_phase = "parsed" /\ c_type \in {"INT32", "SIGNAL", "CSV_STRING_LIST"}
       /\ ParseFailed)
        => /\ c_out.errs # << >>
           /\ c_out.rc # "SLURM_SUCCESS"
           /\ c_out.val = c_dst

\* C12: SIGNAL parse of an integer n outside [1, SIGRTMAX) stores n and
\* records the warning "Non-standard signal number".
C12_IntegerSignalWarns ==
    (c_phase = "parsed" /\ c_type = "SIGNAL" /\ c_tree.type = "int"
       /\ 0 <= c_tree.i /\ c_tree.i < Pow2(16)
       /\ (c_tree.i < 1 \/ c_tree.i >= SIGRTMAX))
        => /\ c_out.val = c_tree.i
           /\ c_out.warns = << "Non-standard signal number" >>

\* C13: TIMESTAMP parse of null returns success and records no error.
C13_TimestampAcceptsNull ==
    (c_phase = "parsed" /\ c_type = "TIMESTAMP" /\ c_tree = DNull)
        => (c_out.rc = "SLURM_SUCCESS" /\ c_out.errs = << >>)

\* C14: INT32 parse of an integer outside [INT32_MIN, INT32_MAX] returns
\* EINVAL (the invalid value kind) and leaves the destination as it was.
C14_Int32OutOfRange ==
    (c_phase = "parsed" /\ c_type = "INT32" /\ c_tree.type = "int"
       /\ (c_tree.i > INT32_MAX \/ c_tree.i < INT32_MIN))
        => (c_out.rc = "EINVAL" /\ c_out.val = c_dst)

\* INT32_MAX + 1 was refused, the destination still holds 1
C14_Witness ==
    /\ c_phase = "parsed" /\ c_type = "INT32"
    /\ c_tree = DInt(INT32_MAX + 1) /\ c_dst = 1
    /\ c_out.rc = "EINVAL" /\ c_out.val = 1

\* C15: NICE parse of an integer n stores n + NICE_OFFSET when
\* |n| <= NICE_OFFSET - 3; every other integer is refused: the
\* ESLURM_INVALID_NICE error is recorded and the destination is left as it
\* was.
C15_NiceRange ==
    (c_phase = "parsed" /\ c_type = "NICE" /\ c_tree.type = "int")
        => IF llabs(c_tree.i) <= NICE_OFFSET - 3
           THEN /\ c_out.rc = "SLURM_SUCCESS" /\ c_out.errs = << >>
                /\ c_out.val = c_tree.i + NICE_OFFSET
           ELSE /\ c_out.errs = << "Nice value not within +/- 2147483645" >>
                /\ c_out.rc \in {"ESLURM_INVALID_NICE", "SLURM_SUCCESS"}
                /\ c_out.val = c_dst

\* -10 was stored as NICE_OFFSET - 10
C15_Witness ==
    /\ c_phase = "parsed" /\ c_type = "NICE" /\ c_tree = DInt(-10)
    /\ c_dst = 1 /\ c_out.val = NICE_OFFSET - 10

\* C16: FLOAT64 parse and FLOAT128 parse of null both store (double) NO_VAL.
C16_NullFloatIsNoVal ==
    (c_phase = "parsed" /\ c_type \in {"FLOAT64", "FLOAT128"}
       /\ c_tree = DNull)
        => (c_out.rc = "SLURM_SUCCESS" /\ c_out.val = Float(NO_VAL))

\* C28: for every non-negative integer n, a successful UINT16_NO_VAL parse
\* stores n itself when n is below INFINITE16 and INFINITE16 otherwise; the
\* stored value is never a truncation of n, and never NO_VAL16 for a number
\* other than NO_VAL16.
C28_NoTruncation ==
    (c_phase = "parsed" /\ c_type = "UINT16_NO_VAL" /\ c_tree.type = "int"
       /\ c_tree.i >= 0 /\ c_out.rc = "SLURM_SUCCESS")
        => /\ c_out.val = IF c_tree.i < INFINITE16 THEN c_tree.i
                          ELSE INFINITE16
           /\ c_tree.i # NO_VAL16 => c_out.val # NO_VAL16

\* C29: for each rlimit field, the dump of a job descriptor reports the
\* value that parsing the field stored, whatever the other fields hold.
C29_RlimitDumpsOwnValue ==
    (c_phase = "dumped" /\ c_type = "JOB_DESC_MSG_RLIMIT")
        => \A i \in 1..Len(job_desc_msg_rlimits) :
              c_out.val.d[job_desc_msg_rlimits[i].key]
                = DUMP_FUNC_UINT64_NO_VAL(
                      IF job_desc_msg_rlimits[i].name
                            \in DOMAIN c_dst.environment
                      THEN c_dst.environment[job_desc_msg_rlimits[i].name]
                      ELSE NO_VAL64,
                      c_complex)

(***************************************************************************)
(* Properties of the burst buffer plugin (Spec) and of its mutex           *)
(* discipline (SpecLock).                                                  *)
(***************************************************************************)
\* state of the record of job j, 0 while it has none
RecState(hash, j) ==
    IF JobRecs(hash, j) = {} THEN 0
    ELSE (CHOOSE r \in JobRecs(hash, j) : TRUE).state

C6_MapsUnderMutex ==
    /\ \A t \in Threads : t_access[t] => bb_mutex = {t}
    /\ Cardinality({t \in Threads : t_access[t]}) <= 1

\* one thread is in the maps while another waits for the mutex
C6_Witness ==
    \E t, w \in Threads :
        /\ t # w /\ t_access[t] /\ bb_mutex = {t}
        /\ t_prog[w] # << >> /\ Head(t_prog[w]) = "lock"

\* C7: a user's load changes only in bb_p_job_try_stage_in, where it is
\* increased, and in bb_p_job_test_stage_out, where it is decreased.
C7_UserLoadChanges ==
    [][\A u \in UserIds :
         LET s == UserSize(bb_uhash, u)
             t == UserSize(bb_uhash', u)
         IN t # s =>
              \/ last_op' = "bb_p_job_try_stage_in" /\ Gt32(t, s)
              \/ last_op' = "bb_p_job_test_stage_out" /\ Gt32(s, t)]_vars

\* C8: from the allocation of a job's record by bb_p_job_try_stage_in until
\* its stage-out is started, bb_p_job_test_stage_in returns 0 at most twice,
\* then 1 on every call, and never -1.
C8_StageInPolls ==
    \A j \in JobIds : ~ ret_hist[j].bad /\ ret_hist[j].zeros <= 2

\* a job was polled to completion: two 0, then 1
C8_Witness ==
    \E j \in admitted \ out_started :
        /\ last_op = "bb_p_job_test_stage_in" /\ last_ret = 1
        /\ ret_hist[j] = [bad |-> FALSE, zeros |-> 2, one |-> TRUE]
        /\ RecState(bb_hash, j) = BB_STATE_STAGED_IN

\* C9: when GetSysState exits with a non-zero status or its output times
\* out, bb_p_load_state leaves total_space and the allocation records as
\* they were and emits an error.
C9_FailedRunChangesNothing ==
    [][\A run \in ScriptRuns :
         (run.started /\ (run.exit # 0 \/ run.timeout) /\ bb_p_load_state(run))
            => /\ total_space' = total_space
               /\ bb_hash' = bb_hash
               /\ log_errors' > 0]_vars

\* the sizes, without the BB_SIZE_IN_NODES flag, of the records in a chain
\* that belong to user u, were admitted by bb_p_job_try_stage_in and are
\* not yet STAGED_OUT, added up
RECURSIVE ActiveLoad(_, _)
ActiveLoad(chain, u) ==
    IF chain = << >> THEN 0
    ELSE (IF /\ Head(chain).user_id = u
             /\ Head(chain).job_id \in admitted
             /\ Head(chain).state < BB_STATE_STAGED_OUT
          THEN Head(chain).size.lo ELSE 0)
         + ActiveLoad(Tail(chain), u)

\* C24: after any sequence of entry points, the load accounted to a user
\* (the count in bb_user.size) is the sum of the sizes of the user's job
\* records that were admitted and have not reached STAGED_OUT; it is zero
\* once they all have.
C24_LoadIsSumOfActive ==
    \A u \in UserIds :
        UserSize(bb_uhash, u).lo = ActiveLoad(bb_hash[u % BB_HASH_SIZE], u)

\* C25: the size of a job's record is taken off its user's load at most
\* once, whatever bb_p_job_start_stage_out and bb_p_job_test_stage_out
\* calls are made for the job.
C25_SubtractedOnce == \A j \in JobIds : sub_count[j] <= 1

Exceeds(job_desc) ==
    LET bb_size == IF job_desc.burst_buffer = NoSpec THEN Zero32
                   ELSE _get_size_num(job_desc.burst_buffer)
    IN \/ job_size_limit # NO_VAL32 /\ Gt32(bb_size, job_size_limit)
       \/ user_size_limit # NO_VAL32 /\ Gt32(bb_size, user_size_limit)

\* C27: bb_p_job_validate returns ESLURM_BURST_BUFFER_LIMIT if and only if
\* the requested size, whatever its suffix, is above the configured
\* JobSizeLimit or UserSizeLimit.
C27_LimitIffExceeds ==
    [][\A d \in JobDescs :
         bb_p_job_validate(d)
            => (last_ret' = "ESLURM_BURST_BUFFER_LIMIT" <=> Exceeds(d))]_vars

(***************************************************************************)
(* Properties of the purge sweep over time (SpecPurge) and of _run_script  *)
(* (SpecScript).                                                           *)
(***************************************************************************)
\* C21: however often bb_p_load_state is called, two sweeps of
\* _purge_bb_rec over the allocation records are at least 60 seconds apart.
C21_PurgeOncePerMinute ==
    [][(swept_at # 0 /\ swept_at' # swept_at)
          => swept_at' - swept_at >= 60]_vars

\* C22: called with max_wait >= 0, _run_script has left its wait loop by
\* about max_wait seconds after it started (one second is allowed for the
\* rounding of the clock), whatever the child does.
C22_BoundedWait ==
    (rscript.pc \in {"while", "poll", "read"} /\ rscript.max_wait >= 0)
        => rscript.elapsed <= rscript.max_wait + 1

====
